---- MODULE Spec2Model ----
(***************************************************************************)
(* Verification model of the layout learner of rhino-grasshopper-mcp:      *)
(*   mentoring/persistent_layout_learner.py  (PersistentLayoutLearner)     *)
(*   mentoring/wire_crossing_detector.py     (WireCrossingDetector)        *)
(*   mentoring/crossing_minimizer.py         (CrossingMinimizer)           *)
(*                                                                         *)
(* The specifications share one variable vector:                           *)
(*   SpecLayout   : the layout operations and the depth/level computations *)
(*   SpecCross    : the crossing detector and the crossing minimizer       *)
(*   SpecStore    : the learned store, learn_from_canvas, save and load    *)
(*   SpecFile     : the storage file replaced between two runs, clear()    *)
(*   SpecFault    : the store operations on an unwritable storage path     *)
(*   SpecQuery    : predict_offset_knn and _get_learned_offset             *)
(*   SpecClassify : the component categories of calculate_auto_layout      *)
(*   SpecPlace    : the positions calculate_auto_layout_v1 returns         *)
(*   SpecLevels   : the three level computations on one canvas             *)
(*   SpecTemplate : subgraph templates in calculate_auto_layout            *)
(*   SpecCycle    : the sources of a cluster without a source              *)
(*   SpecOverlap  : the overlap resolvers of the v1 and v9 layouts         *)
(***************************************************************************)
EXTENDS Integers, Sequences, FiniteSets, TLC

\* ------------------------------------------------------------------ bounds
\* number of component records of one canvas
MaxNodes == 3
\* number of distinct wires of one canvas
MaxEdges == 3
\* largest level the learned topology patterns may estimate for a node
MaxEstLevel == 1

\* ------------------------------------------------------------- helpers
MaxOf(S) == CHOOSE m \in S : \A x \in S : x <= m
MinOf(S) == CHOOSE m \in S : \A x \in S : m <= x

\* the sequences that enumerate the finite set S once each: the orders in
\* which Python may iterate a set of strings
Perms(S) ==
  {p \in [1..Cardinality(S) -> S] : \A i, j \in 1..Cardinality(S) : i # j => p[i] # p[j]}

\* S in increasing order: a dict keyed by guid iterates in insertion order,
\* which is the order of the component records
RECURSIVE Ascending(_)
Ascending(S) ==
  IF S = {} THEN <<>> ELSE <<MinOf(S)>> \o Ascending(S \ {MinOf(S)})

EmptyMap == [x \in {} |-> 0]

\* ---------------------------------------------------------------- state
VARIABLES
  components,   \* the component records of the call, by kind
  wires,        \* the wire records of the call, <<source, target>>
  op,           \* the operation in progress
  pc,           \* its position
  comp_map,     \* guids kept by the operation's graph build
  cluster,      \* cluster argument of the two cluster helpers
  queue,        \* BFS queue of the running level/depth loop
  node_levels,  \* guid -> level (node_levels / levels / depths / depth)
  visited,      \* visited set of the level loop
  steps,        \* iterations of the running while loop
  positions,    \* guids that have an entry in the position map
  result,       \* what the call returned
  all_wires,         \* crossing detector / minimizer: the list of Wire
  cpc,               \* position of the crossing operation
  crossings,         \* the count the operation returned
  level_nodes,       \* minimizer: the level's nodes
  ml_initial_order,  \* minimizer: optional predicted order (<<>> = None)
  base_y,            \* minimizer: y of the first slot of the level
  current_order,     \* adjacent_swap_optimize: current_order
  current_crossings, \* adjacent_swap_optimize: current_crossings
  swap_i,            \* adjacent_swap_optimize: i of the for loop
  improved,          \* adjacent_swap_optimize: improved
  iteration,         \* adjacent_swap_optimize: iteration
  store,        \* the learner's in-memory store
  file,         \* the JSON document on disk, or "absent"
  sresult       \* what the last store operation returned

lvars == <<components, wires, op, pc, comp_map, cluster, queue, node_levels,
           visited, steps, positions, result>>
cvars == <<all_wires, cpc, crossings, level_nodes, ml_initial_order, base_y,
           current_order, current_crossings, swap_i, improved, iteration>>
svars == <<store, file, sresult>>
vars == <<lvars, cvars, svars>>

\* ------------------------------------------------------- canvas inputs
\* A record is a component, a visual Group, or a record without a guid.
Kinds == {"comp", "Group", "noguid"}

RECURSIVE SeqsUpTo(_, _)
SeqsUpTo(S, n) ==
  IF n = 0 THEN {<<>>}
  ELSE SeqsUpTo(S, n - 1) \cup
       {Append(s, x) : s \in {t \in SeqsUpTo(S, n - 1) : Len(t) = n - 1}, x \in S}

\* The canvases of the model: component records only, or components
\* followed by one Group or one guid-less record, or Groups only.
Canvases ==
  UNION {{[i \in 1..n |-> "comp"], [i \in 1..n |-> "Group"]} \cup
         {[i \in 1..n |-> IF i = n THEN k ELSE "comp"] : k \in Kinds} :
           n \in 0..MaxNodes}

\* records that carry a guid; a record's guid is its index
WithGuid(c) == {i \in 1..Len(c) : c[i] # "noguid"}

\* wires between records that carry a guid, no wire from a node to itself
WireSets(c) ==
  {w \in SUBSET {<<s, t>> \in WithGuid(c) \X WithGuid(c) : s # t} :
     Cardinality(w) <= MaxEdges}

\* ------------------------------------------------------ graph operators
Outgoing(cm, w, g) == {t \in cm : g \in cm /\ <<g, t>> \in w}
Incoming(cm, w, g) == {s \in cm : g \in cm /\ <<s, g>> \in w}
Neighbors(cm, w, g) == Outgoing(cm, w, g) \cup Incoming(cm, w, g)

RECURSIVE FwdReach(_, _, _)
FwdReach(cm, w, S) ==
  LET N == S \cup UNION {Outgoing(cm, w, g) : g \in S}
  IN IF N = S THEN S ELSE FwdReach(cm, w, N)

RECURSIVE BwdReach(_, _, _)
BwdReach(cm, w, S) ==
  LET N == S \cup UNION {Incoming(cm, w, g) : g \in S}
  IN IF N = S THEN S ELSE BwdReach(cm, w, N)

RECURSIVE ClusterOf(_, _, _)
ClusterOf(cm, w, S) ==
  LET N == S \cup UNION {Neighbors(cm, w, g) : g \in S}
  IN IF N = S THEN S ELSE ClusterOf(cm, w, N)

Clusters(cm, w) == {ClusterOf(cm, w, {g}) : g \in cm}

Acyclic(cm, w) ==
  \A g \in cm : g \notin FwdReach(cm, w, Outgoing(cm, w, g))

\* ------------------------------------------------- termination measure
\* Iterations a level/depth loop can take on a canvas of n nodes when it
\* terminates: every popped queue entry is a walk from a start node, and
\* a graph without a reachable cycle has fewer than 2^n of them.
StepBound(n) == 2 ^ n

\* the loops are followed one iteration past that bound and no further
WithinCap == steps <= StepBound(Cardinality(comp_map))

\* entries appended for the targets of guid, in iteration order ord
Pushed(ord, level) == [i \in 1..Len(ord) |-> <<ord[i], level>>]

\* --------------------------------------------------------------- Init
LayoutIdle ==
  /\ components = <<>> /\ wires = {} /\ op = "none" /\ pc = "idle"
  /\ comp_map = {} /\ cluster = {} /\ queue = <<>> /\ node_levels = EmptyMap
  /\ visited = {} /\ steps = 0 /\ positions = {} /\ result = "none"

\* ======================= calculate_auto_layout ========================
\* Position keys of one cluster after the forward BFS and its fallback:
\* sources (or the leftmost node when there is none), every node the BFS
\* reaches from them, then every node still without a position.
ClusterPositions(remaining, w) ==
  LET srcs == {g \in remaining : Incoming(remaining, w, g) = {}}
      sources == IF srcs = {} THEN {CHOOSE g \in remaining : TRUE} ELSE srcs
      processed == FwdReach(remaining, w, sources)
      unprocessed == {g \in remaining : g \notin processed}
  IN processed \cup unprocessed

\* Guid lists a learned subgraph template can match: the nodes of a directed
\* path of two or more components (find_matching_templates extends paths
\* along outgoing wires and never revisits a node of the path).
TemplatePaths(cm, w) ==
  {p \in SeqsUpTo(cm, Cardinality(cm)) :
     /\ Len(p) >= 2
     /\ \A i, j \in 1..Len(p) : i # j => p[i] # p[j]
     /\ \A i \in 1..(Len(p) - 1) : <<p[i], p[i + 1]>> \in w}

\* apply_template_positions: one position per matched guid that has a
\* template node; the templates learn_from_canvas builds have one node per
\* component of their key.
TemplatePositions(guids) == {guids[i] : i \in 1..Len(guids)}

NewPositions(cm, w, template_applied_guids, template_positions) ==
  template_positions \cup
  UNION {ClusterPositions(c \ template_applied_guids, w) :
           c \in {k \in Clusters(cm, w) : k \ template_applied_guids # {}}}

\* entry guard, graph build, start of calculate_topology_levels
CallAuto ==
  /\ pc = "idle"
  /\ \E c \in Canvases : \E w \in WireSets(c) :
       /\ components' = c /\ wires' = w /\ op' = "auto"
       /\ IF Len(c) < 2
          THEN /\ result' = "not_enough" /\ pc' = "done"
               /\ UNCHANGED <<comp_map, queue>>
          ELSE /\ comp_map' = WithGuid(c)
               /\ queue' = LET source_nodes ==
                                 {g \in WithGuid(c) : Incoming(WithGuid(c), w, g) = {}}
                           IN Pushed(Ascending(source_nodes), 0)
               /\ pc' = "levels" /\ UNCHANGED result
  /\ UNCHANGED <<cluster, node_levels, visited, steps, positions>>
  /\ UNCHANGED <<cvars, svars>>

\* one iteration of the while loop of calculate_topology_levels
AutoLevelsStep ==
  /\ op = "auto" /\ pc = "levels" /\ queue # <<>> /\ WithinCap
  /\ LET guid == Head(queue)[1]
         level == Head(queue)[2]
     IN \E ord \in Perms(Outgoing(comp_map, wires, guid)) :
          IF guid \in visited
          THEN /\ IF guid \in DOMAIN node_levels /\ level > node_levels[guid]
                  THEN /\ node_levels' = [node_levels EXCEPT ![guid] = level]
                       /\ queue' = Tail(queue) \o Pushed(ord, level + 1)
                  ELSE /\ queue' = Tail(queue)
                       /\ UNCHANGED node_levels
               /\ UNCHANGED visited
          ELSE /\ visited' = visited \cup {guid}
               /\ node_levels' =
                    (guid :> (IF guid \in DOMAIN node_levels /\ node_levels[guid] > level
                              THEN node_levels[guid] ELSE level)) @@ node_levels
               /\ queue' = Tail(queue) \o Pushed(ord, level + 1)
  /\ steps' = steps + 1
  /\ UNCHANGED <<components, wires, op, pc, comp_map, cluster, positions, result>>
  /\ UNCHANGED <<cvars, svars>>

\* the loop has ended: estimated levels for the nodes it did not reach,
\* then clusters, templates, per-cluster placement and the result
AutoFinish ==
  /\ op = "auto" /\ pc = "levels" /\ queue = <<>>
  /\ \E estimated_level \in [comp_map \ DOMAIN node_levels -> 0..MaxEstLevel] :
       node_levels' = estimated_level @@ node_levels
  /\ \E matches \in {<<>>} \cup TemplatePaths(comp_map, wires) :
       positions' = NewPositions(comp_map, wires, TemplatePositions(matches),
                                 TemplatePositions(matches))
  /\ result' = "success" /\ pc' = "done"
  /\ UNCHANGED <<components, wires, op, comp_map, cluster, queue, visited, steps>>
  /\ UNCHANGED <<cvars, svars>>

\* ====================== calculate_auto_layout_v1 =======================
\* _build_graph_v1: records with a guid whose name is not 'Group'
BuildGraphV1(c) == {i \in 1..Len(c) : c[i] = "comp"}

\* the shortest-path rule, which the depth pass does not use: one more than
\* the shallowest source
V1DepthOfShallowest(depth, sources) == MinOf({depth[src] : src \in sources}) + 1

\* depth of a node all of whose sources are processed
V1DepthOf(depth, sources) == MaxOf({depth[src] : src \in sources}) + 1

\* one "for guid in comp_map" sweep of the depth pass; the depth and the
\* processed set a node sees include the nodes handled earlier in the sweep
RECURSIVE V1Sweep(_, _, _, _, _)
V1Sweep(order, cm, w, depth, processed) ==
  IF order = <<>> THEN <<depth, processed>>
  ELSE LET guid == Head(order)
           sources == Incoming(cm, w, guid)
       IN IF guid \in processed
          THEN V1Sweep(Tail(order), cm, w, depth, processed)
          ELSE IF sources = {}
          THEN V1Sweep(Tail(order), cm, w, (guid :> 0) @@ depth, processed \cup {guid})
          ELSE IF sources \subseteq processed
          THEN V1Sweep(Tail(order), cm, w, (guid :> V1DepthOf(depth, sources)) @@ depth,
                       processed \cup {guid})
          ELSE V1Sweep(Tail(order), cm, w, depth, processed)

\* "for _ in range(len(comp_map) * 2)" with its early break
RECURSIVE V1Sweeps(_, _, _, _, _)
V1Sweeps(k, cm, w, depth, processed) ==
  IF k = 0 \/ Cardinality(processed) >= Cardinality(cm) THEN depth
  ELSE LET r == V1Sweep(Ascending(cm), cm, w, depth, processed)
       IN V1Sweeps(k - 1, cm, w, r[1], r[2])

\* second pass: a node without sources moves up to one level left of its
\* nearest target
RECURSIVE V1SecondPass(_, _, _, _)
V1SecondPass(order, cm, w, depth) ==
  IF order = <<>> THEN depth
  ELSE LET guid == Head(order)
           targets == Outgoing(cm, w, guid)
           min_target_depth == MinOf({depth[t] : t \in targets})
           new_depth == IF min_target_depth - 1 > 0 THEN min_target_depth - 1 ELSE 0
       IN IF Incoming(cm, w, guid) = {} /\ targets # {} /\ new_depth > depth[guid]
          THEN V1SecondPass(Tail(order), cm, w, [depth EXCEPT ![guid] = new_depth])
          ELSE V1SecondPass(Tail(order), cm, w, depth)

V1Depth(cm, w) ==
  LET swept == V1Sweeps(Cardinality(cm) * 2, cm, w, EmptyMap, {})
      depth == [g \in cm |-> IF g \in DOMAIN swept THEN swept[g] ELSE 0]
  IN V1SecondPass(Ascending(cm), cm, w, depth)

\* position keys of one subgraph: its sinks (or its deepest node), the
\* nodes the reverse BFS reaches from them, then the nodes still unplaced
V1SubgraphPositions(nodes, w, depth) ==
  LET real_sinks == {g \in nodes : Outgoing(nodes, w, g) = {}}
      deepest == CHOOSE g \in nodes :
                   /\ \A h \in nodes : depth[h] <= depth[g]
                   /\ \A h \in nodes : depth[h] = depth[g] => g <= h
      sinks == IF real_sinks = {} THEN {deepest} ELSE real_sinks
      placed == BwdReach(nodes, w, sinks)
  IN placed \cup {g \in nodes : g \notin placed}

\* _calculate_layout_v1: subgraphs by union-find over the wires, placement
\* per subgraph, then the nodes that are in no subgraph position
V1Positions(cm, w, depth) ==
  LET in_subgraphs == UNION {V1SubgraphPositions(nodes, w, depth) : nodes \in Clusters(cm, w)}
  IN in_subgraphs \cup {g \in cm : g \notin in_subgraphs}

CallV1 ==
  /\ pc = "idle"
  /\ \E c \in Canvases : \E w \in WireSets(c) :
       /\ components' = c /\ wires' = w /\ op' = "v1" /\ pc' = "done"
       /\ IF Len(c) < 2
          THEN /\ result' = "not_enough"
               /\ UNCHANGED <<comp_map, node_levels, positions>>
          ELSE IF BuildGraphV1(c) = {}
          THEN /\ result' = "no_valid" /\ comp_map' = {}
               /\ UNCHANGED <<node_levels, positions>>
          ELSE /\ comp_map' = BuildGraphV1(c)
               /\ node_levels' = V1Depth(BuildGraphV1(c), w)
               /\ positions' = V1Positions(BuildGraphV1(c), w, V1Depth(BuildGraphV1(c), w))
               /\ result' = "success"
  /\ UNCHANGED <<cluster, queue, visited, steps>>
  /\ UNCHANGED <<cvars, svars>>

\* ====================== calculate_auto_layout_v9 =======================
\* sources.sort(key=outgoing count, reverse=True): a stable sort of the
\* sources taken in comp_map order
RECURSIVE V9SortSources(_, _, _)
V9SortSources(S, cm, w) ==
  IF S = {} THEN <<>>
  ELSE LET first == CHOOSE g \in S : \A h \in S :
                      \/ Cardinality(Outgoing(cm, w, g)) > Cardinality(Outgoing(cm, w, h))
                      \/ /\ Cardinality(Outgoing(cm, w, g)) = Cardinality(Outgoing(cm, w, h))
                         /\ g <= h
       IN <<first>> \o V9SortSources(S \ {first}, cm, w)

\* the node with the largest outgoing - incoming count, first in comp_map
\* order among equals
V9PseudoSource(cm, w) ==
  CHOOSE g \in cm : \A h \in cm :
    LET source_score(x) == Cardinality(Outgoing(cm, w, x)) - Cardinality(Incoming(cm, w, x))
    IN \/ source_score(g) > source_score(h)
       \/ source_score(g) = source_score(h) /\ g <= h

\* BFS of layout_chain_from_source: a target joins the chain when all its
\* sources are in the chain so far or already placed
RECURSIVE V9Chain(_, _, _, _, _)
V9Chain(q, chain_visited, placed, cm, w) ==
  IF q = <<>> THEN chain_visited
  ELSE LET node == Head(q)
           seen == chain_visited \cup {node}
           next_nodes == {n \in Outgoing(cm, w, node) :
                            n \notin seen /\ Incoming(cm, w, n) \subseteq (seen \cup placed)}
       IN IF node \in chain_visited
          THEN V9Chain(Tail(q), chain_visited, placed, cm, w)
          ELSE V9Chain(Tail(q) \o Ascending(next_nodes), seen, placed, cm, w)

RECURSIVE V9Chains(_, _, _, _)
V9Chains(sources, placed, cm, w) ==
  IF sources = <<>> THEN placed
  ELSE IF Head(sources) \in placed
  THEN V9Chains(Tail(sources), placed, cm, w)
  ELSE V9Chains(Tail(sources),
                placed \cup V9Chain(<<Head(sources)>>, {}, placed, cm, w), cm, w)

\* chains from every source, then every node not placed by a chain
V9Positions(cm, w) ==
  LET srcs == {g \in cm : Incoming(cm, w, g) = {}}
      sources == IF srcs = {} THEN <<V9PseudoSource(cm, w)>>
                 ELSE V9SortSources(srcs, cm, w)
      placed == V9Chains(sources, {}, cm, w)
  IN placed \cup {g \in cm : g \notin placed}

CallV9 ==
  /\ pc = "idle"
  /\ \E c \in Canvases : \E w \in WireSets(c) :
       /\ components' = c /\ wires' = w /\ op' = "v9" /\ pc' = "done"
       /\ IF Len(c) < 2
          THEN /\ result' = "not_enough"
               /\ UNCHANGED <<comp_map, positions>>
          ELSE IF BuildGraphV1(c) = {}
          \* max() over the keys of an empty comp_map
          THEN /\ result' = "raised ValueError" /\ comp_map' = {}
               /\ UNCHANGED positions
          ELSE /\ comp_map' = BuildGraphV1(c)
               /\ positions' = V9Positions(BuildGraphV1(c), w)
               /\ result' = "success"
  /\ UNCHANGED <<cluster, queue, node_levels, visited, steps>>
  /\ UNCHANGED <<cvars, svars>>

\* ===================== _calculate_topology_levels =====================
\* called with one connected cluster of the canvas graph
CallTopo ==
  /\ pc = "idle"
  /\ \E c \in Canvases : \E w \in WireSets(c) :
     \E cl \in Clusters(WithGuid(c), w) :
       LET srcs == {g \in cl : Incoming(cl, w, g) = {}}
       IN \E start \in (IF srcs = {} THEN {{g} : g \in cl} ELSE {srcs}) :
            /\ components' = c /\ wires' = w /\ op' = "topo" /\ pc' = "levels"
            /\ comp_map' = WithGuid(c) /\ cluster' = cl
            /\ queue' = Pushed(Ascending(start), 0)
  /\ UNCHANGED <<node_levels, visited, steps, positions, result>>
  /\ UNCHANGED <<cvars, svars>>

TopoStep ==
  /\ op = "topo" /\ pc = "levels" /\ queue # <<>> /\ WithinCap
  /\ LET guid == Head(queue)[1]
         level == Head(queue)[2]
     IN \E ord \in Perms(Outgoing(cluster, wires, guid)) :
          IF guid \in DOMAIN node_levels /\ ~(level > node_levels[guid])
          THEN /\ queue' = Tail(queue)
               /\ UNCHANGED node_levels
          ELSE /\ node_levels' = (guid :> level) @@ node_levels
               /\ queue' = Tail(queue) \o Pushed(ord, level + 1)
  /\ steps' = steps + 1
  /\ UNCHANGED <<components, wires, op, pc, comp_map, cluster, visited, positions, result>>
  /\ UNCHANGED <<cvars, svars>>

TopoFinish ==
  /\ op = "topo" /\ pc = "levels" /\ queue = <<>>
  /\ node_levels' = [g \in cluster |->
                       IF g \in DOMAIN node_levels THEN node_levels[g] ELSE 0]
  /\ result' = "returned" /\ pc' = "done"
  /\ UNCHANGED <<components, wires, op, comp_map, cluster, queue, visited, steps, positions>>
  /\ UNCHANGED <<cvars, svars>>

\* ======================== _calculate_max_depth ========================
InQueue(q, g) == \E i \in 1..Len(q) : q[i] = g

\* the "for source in incoming & cluster" loop of one popped node
RECURSIVE MaxDepthVisit(_, _, _, _)
MaxDepthVisit(ord, new_depth, depths, q) ==
  IF ord = <<>> THEN <<depths, q>>
  ELSE LET source == Head(ord)
       IN IF source \notin DOMAIN depths \/ new_depth > depths[source]
          THEN MaxDepthVisit(Tail(ord), new_depth, (source :> new_depth) @@ depths,
                             IF InQueue(q, source) THEN q ELSE Append(q, source))
          ELSE MaxDepthVisit(Tail(ord), new_depth, depths, q)

\* called with one connected cluster and the list of its sinks
CallMaxDepth ==
  /\ pc = "idle"
  /\ \E c \in Canvases : \E w \in WireSets(c) :
     \E cl \in Clusters(WithGuid(c), w) :
       LET sinks == {g \in cl : Outgoing(cl, w, g) = {}}
       IN /\ components' = c /\ wires' = w /\ op' = "maxdepth"
          /\ comp_map' = WithGuid(c) /\ cluster' = cl
          /\ IF sinks = {}
             THEN /\ result' = "returned" /\ pc' = "done"
                  /\ UNCHANGED <<queue, node_levels>>
             ELSE /\ node_levels' = [g \in sinks |-> 0]
                  /\ queue' = Ascending(sinks)
                  /\ pc' = "depths" /\ UNCHANGED result
  /\ UNCHANGED <<visited, steps, positions>>
  /\ UNCHANGED <<cvars, svars>>

MaxDepthStep ==
  /\ op = "maxdepth" /\ pc = "depths" /\ queue # <<>> /\ WithinCap
  /\ LET current == Head(queue)
         current_depth == IF current \in DOMAIN node_levels THEN node_levels[current] ELSE 0
     IN \E ord \in Perms(Incoming(cluster, wires, current)) :
          LET r == MaxDepthVisit(ord, current_depth + 1, node_levels, Tail(queue))
          IN node_levels' = r[1] /\ queue' = r[2]
  /\ steps' = steps + 1
  /\ UNCHANGED <<components, wires, op, pc, comp_map, cluster, visited, positions, result>>
  /\ UNCHANGED <<cvars, svars>>

MaxDepthFinish ==
  /\ op = "maxdepth" /\ pc = "depths" /\ queue = <<>>
  /\ result' = "returned" /\ pc' = "done"
  /\ UNCHANGED <<components, wires, op, comp_map, cluster, queue, node_levels, visited,
                 steps, positions>>
  /\ UNCHANGED <<cvars, svars>>

\* ====================== PersistentLayoutLearner: store =================
\* Numbers.  A length is an integer count of tenths of a pixel: canvas
\* coordinates are whole pixels and every other sample is a value that
\* round(x, 1) produced, so round(x, 1) leaves a sample unchanged.  An average
\* is the exact quotient <<numerator, denominator>> in the same unit; the
\* document holds it rounded, as the integer count of the decimal unit.
Px(n) == 10 * n

\* ------------------------------------------------------- store bounds
\* the sample window of a pattern (100 samples in the source)
SampleCap == 2
\* the sample window of the global spacing pattern (200 in the source)
SpacingCap == 3
\* the raw pairwise sample pool (5000 in the source)
max_knn_samples == 3
\* samples of a component pattern written by save (20 in the source)
ComponentSaveWindow == 1
\* samples of the global spacing pattern written by save (50)
SpacingSaveWindow == 2
\* samples of a connection-type pattern written by save (30)
ConnectionSaveWindow == 1
\* learning sessions written by save (10)
SessionSaveWindow == 2
\* learning calls of one store
MaxLearns == 2
\* wires of one learned canvas
MaxLearnWires == 2

VERSION == "3.0"

LastN(s, n) == IF Len(s) <= n THEN s ELSE SubSeq(s, Len(s) - n + 1, Len(s))

RECURSIVE SeqSum(_)
SeqSum(s) == IF s = <<>> THEN 0 ELSE Head(s) + SeqSum(Tail(s))

\* the quotient n / d, d > 0, in lowest terms
RECURSIVE GCD(_, _)
GCD(a, b) == IF b = 0 THEN a ELSE GCD(b, a % b)

Rat(n, d) ==
  LET g == GCD(IF n < 0 THEN 0 - n ELSE n, d)
  IN <<n \div g, d \div g>>

\* round(q, decimals) with scale = 10^decimals: the nearest multiple of the
\* decimal unit, a tie going to the even one
RoundTo(q, scale) ==
  LET n == q[1] * scale
      lo == n \div q[2]
      r == n - lo * q[2]
  IN IF 2 * r < q[2] THEN lo
     ELSE IF 2 * r > q[2] THEN lo + 1
     ELSE IF lo % 2 = 0 THEN lo ELSE lo + 1

\* sum(x * w for x, w in zip(samples, weights)) / total_weight with
\* weights = [1 + i * 0.1 for i in range(n)], numerator and denominator
\* both times ten
RECURSIVE WeightedSum(_, _)
WeightedSum(s, i) ==
  IF s = <<>> THEN 0 ELSE Head(s) * (10 + i) + WeightedSum(Tail(s), i + 1)

RECURSIVE TotalWeight(_, _)
TotalWeight(n, i) == IF i >= n THEN 0 ELSE (10 + i) + TotalWeight(n, i + 1)

WeightedMean(s) == Rat(WeightedSum(s, 0), TotalWeight(Len(s), 0))

FlatMean(s) == Rat(SeqSum(s), Len(s))

\* ConnectionSpacingPattern(connection_type, avg_x) and its add_sample
ConnectionSpacingPattern(avg_x) ==
  [avg_x |-> <<Px(avg_x), 1>>, x_samples |-> <<>>, sample_count |-> 0]

ConnectionSpacingAddSample(p, dx) ==
  LET x_samples == LastN(Append(p.x_samples, dx), SampleCap)
  IN [avg_x |-> WeightedMean(x_samples), x_samples |-> x_samples,
      sample_count |-> Len(x_samples)]

\* ComponentPattern(name) and its add_sample
ComponentPattern ==
  [avg_offset_x |-> <<0, 1>>, sample_count |-> 0, weight |-> <<1, 1>>,
   offset_x_samples |-> <<>>]

ComponentAddSample(p, offset_x) ==
  LET samples == LastN(Append(p.offset_x_samples, offset_x), SampleCap)
      n == Len(samples)
  IN [avg_offset_x |-> WeightedMean(samples), sample_count |-> n,
      weight |-> IF 50 + n > 100 THEN <<2, 1>> ELSE Rat(50 + n, 50),
      offset_x_samples |-> samples]

\* SpacingPattern() and its add_sample
SpacingPattern == [avg_x |-> <<Px(150), 1>>, x_samples |-> <<>>, sample_count |-> 0]

SpacingAddSample(p, dx) ==
  LET x_samples == LastN(Append(p.x_samples, dx), SpacingCap)
  IN [avg_x |-> FlatMean(x_samples), x_samples |-> x_samples,
      sample_count |-> Len(x_samples)]

\* XSpacingByLevelPattern.avg_x_spacing
avg_x_spacing(p) == IF p.x_spacings = <<>> THEN <<Px(200), 1>> ELSE FlatMean(p.x_spacings)

\* RelativePositionPattern.avg_x_offset and .source_left_ratio
avg_x_offset(p) == IF p.x_offsets = <<>> THEN <<Px(0 - 200), 1>> ELSE FlatMean(p.x_offsets)

source_left_ratio(p) ==
  IF p.x_offsets = <<>> THEN <<1, 2>>
  ELSE Rat(Cardinality({i \in 1..Len(p.x_offsets) : p.x_offsets[i] < 0}), Len(p.x_offsets))

ConnTypes == {"param_to_comp", "comp_to_comp", "comp_to_param", "param_to_param"}

\* the store __init__ builds before it calls load
FreshStore ==
  [version |-> VERSION,
   total_sessions |-> 0,
   learning_sessions |-> <<>>,
   component_patterns |-> EmptyMap,
   spacing_pattern |-> SpacingPattern,
   connection_spacing |->
     [t \in ConnTypes |->
        ConnectionSpacingPattern(
          CASE t = "param_to_comp" -> 120 [] t = "comp_to_comp" -> 180
            [] t = "comp_to_param" -> 150 [] t = "param_to_param" -> 100)],
   connection_pair_samples |-> <<>>,
   x_spacing_by_level |-> EmptyMap,
   relative_position_patterns |-> EmptyMap]

\* ---------------------------------------------------- learn_from_canvas
\* A learned canvas.  Wire i joins a component named "A" at x = pairs[i][1]
\* to a component named "B" at x = pairs[i][2]; every wire has its own two
\* components, further components have no wire.  Every component has a
\* non-zero y, and the y samples run parallel to the x samples.
src_name == "A"
tgt_name == "B"
name_key == "(A, B)"
level_key == "(0, 1)"
conn_type == "comp_to_comp"

\* src.get('x') or src.get('position_x'): the records have no position_x
\* key, so a zero x gives None
XOrPosition(x) == IF x # 0 THEN <<x>> ELSE <<>>

\* the dx of the wires the first pass does not skip
RECURSIVE FirstPassOffsets(_)
FirstPassOffsets(pairs) ==
  IF pairs = <<>> THEN <<>>
  ELSE LET src_x == XOrPosition(Head(pairs)[1])
           tgt_x == XOrPosition(Head(pairs)[2])
       IN (IF src_x = <<>> \/ tgt_x = <<>> THEN <<>> ELSE <<tgt_x[1] - src_x[1]>>)
          \o FirstPassOffsets(Tail(pairs))

\* x_spacing = tgt_x - src_x of the level pass, for tgt_level > src_level
LevelSpacings(pairs) == [i \in 1..Len(pairs) |-> pairs[i][2] - pairs[i][1]]

\* x_offset = src_x - tgt_x of the relative position pass
RelativeOffsets(pairs) == [i \in 1..Len(pairs) |-> pairs[i][1] - pairs[i][2]]

RECURSIVE SpacingAddAll(_, _)
SpacingAddAll(p, s) ==
  IF s = <<>> THEN p ELSE SpacingAddAll(SpacingAddSample(p, Head(s)), Tail(s))

RECURSIVE ComponentAddAll(_, _)
ComponentAddAll(p, s) ==
  IF s = <<>> THEN p ELSE ComponentAddAll(ComponentAddSample(p, Head(s)), Tail(s))

RECURSIVE ConnectionAddAll(_, _)
ConnectionAddAll(p, s) ==
  IF s = <<>> THEN p ELSE ConnectionAddAll(ConnectionSpacingAddSample(p, Head(s)), Tail(s))

\* ConnectionPairSample(source_name, target_name, source_type, target_type,
\* offset_x, ...)
ConnectionPairSample(source_name, target_name, source_type, target_type, offset_x) ==
  [source_name |-> source_name, target_name |-> target_name,
   source_type |-> source_type, target_type |-> target_type,
   offset_x |-> offset_x]

\* the pair samples of the wires the first pass does not skip: both names
\* classify as ComponentType.UNKNOWN, whose value is "unknown"
PairSamples(offs) ==
  [i \in 1..Len(offs) |->
     ConnectionPairSample(src_name, tgt_name, "unknown", "unknown", offs[i])]

\* the append without the truncation that follows it in the code
PoolAppendOnly(pool, pair_sample) == Append(pool, pair_sample)

\* connection_pair_samples.append(pair_sample) and the truncation after it
PoolAppend(pool, pair_sample) == LastN(Append(pool, pair_sample), max_knn_samples)

RECURSIVE PoolAppendAll(_, _)
PoolAppendAll(pool, s) ==
  IF s = <<>> THEN pool ELSE PoolAppendAll(PoolAppend(pool, Head(s)), Tail(s))

\* x_spacings.append / truncate / sample_count += 1
RECURSIVE LevelAddAll(_, _)
LevelAddAll(p, s) ==
  IF s = <<>> THEN p
  ELSE LevelAddAll([x_spacings |-> LastN(Append(p.x_spacings, Head(s)), SampleCap),
                    sample_count |-> p.sample_count + 1], Tail(s))

\* x_offsets.append / truncate / sample_count += 1
RECURSIVE RelativeAddAll(_, _)
RelativeAddAll(p, s) ==
  IF s = <<>> THEN p
  ELSE RelativeAddAll([x_offsets |-> LastN(Append(p.x_offsets, Head(s)), SampleCap),
                       sample_count |-> p.sample_count + 1], Tail(s))

EntryOr(map, key, default) == IF key \in DOMAIN map THEN map[key] ELSE default

\* the store after the passes of learn_from_canvas over the canvas
LearnedStore(st, pairs) ==
  LET offs == FirstPassOffsets(pairs)
  IN [version |-> st.version,
      total_sessions |-> st.total_sessions + 1,
      learning_sessions |->
        Append(st.learning_sessions,
               [session_id |-> st.total_sessions + 1, wire_count |-> Len(pairs)]),
      component_patterns |->
        IF offs = <<>> THEN st.component_patterns
        ELSE [n \in {src_name} |->
                ComponentAddAll(EntryOr(st.component_patterns, src_name, ComponentPattern), offs)],
      spacing_pattern |-> SpacingAddAll(st.spacing_pattern, offs),
      connection_spacing |->
        [st.connection_spacing EXCEPT ![conn_type] = ConnectionAddAll(@, offs)],
      connection_pair_samples |->
        PoolAppendAll(st.connection_pair_samples, PairSamples(offs)),
      x_spacing_by_level |->
        IF pairs = <<>> THEN st.x_spacing_by_level
        ELSE [k \in {level_key} |->
                LevelAddAll(EntryOr(st.x_spacing_by_level, level_key,
                                    [x_spacings |-> <<>>, sample_count |-> 0]),
                            LevelSpacings(pairs))],
      relative_position_patterns |->
        IF pairs = <<>> THEN st.relative_position_patterns
        ELSE [k \in {name_key} |->
                RelativeAddAll(EntryOr(st.relative_position_patterns, name_key,
                                       [x_offsets |-> <<>>, sample_count |-> 0]),
                               RelativeOffsets(pairs))]]

\* the collections whose truncation branch the call took
Truncated(st, pairs) ==
  LET offs == FirstPassOffsets(pairs)
      k == Len(offs)
  IN {c \in {"component", "spacing", "connection", "pool", "level", "relative"} :
        CASE c = "component" ->
               Len(EntryOr(st.component_patterns, src_name, ComponentPattern).offset_x_samples)
                 + k > SampleCap
          [] c = "spacing" -> Len(st.spacing_pattern.x_samples) + k > SpacingCap
          [] c = "connection" ->
               Len(st.connection_spacing[conn_type].x_samples) + k > SampleCap
          [] c = "pool" -> Len(st.connection_pair_samples) + k > max_knn_samples
          [] c = "level" ->
               Len(EntryOr(st.x_spacing_by_level, level_key,
                           [x_spacings |-> <<>>, sample_count |-> 0]).x_spacings)
                 + Len(pairs) > SampleCap
          [] c = "relative" ->
               Len(EntryOr(st.relative_position_patterns, name_key,
                           [x_offsets |-> <<>>, sample_count |-> 0]).x_offsets)
                 + Len(pairs) > SampleCap}

\* ------------------------------------------------------------ save
\* the document save writes (the timestamps are left out): an average
\* rounded to two decimals is a count of hundredths of a pixel, one rounded
\* to one decimal a count of tenths, a weight a count of thousandths and a
\* ratio a count of hundredths
DocOf(st) ==
  [version |-> st.version,
   total_sessions |-> st.total_sessions,
   component_patterns |->
     [n \in DOMAIN st.component_patterns |->
        LET p == st.component_patterns[n]
        IN [avg_offset_x |-> RoundTo(p.avg_offset_x, 10),
            sample_count |-> p.sample_count,
            weight |-> RoundTo(p.weight, 1000),
            offset_x_samples |-> LastN(p.offset_x_samples, ComponentSaveWindow)]],
   spacing_pattern |->
     [avg_x |-> RoundTo(st.spacing_pattern.avg_x, 10),
      sample_count |-> st.spacing_pattern.sample_count,
      x_samples |-> LastN(st.spacing_pattern.x_samples, SpacingSaveWindow)],
   connection_spacing |->
     [t \in DOMAIN st.connection_spacing |->
        LET pattern == st.connection_spacing[t]
        IN [avg_x |-> RoundTo(pattern.avg_x, 10),
            sample_count |-> pattern.sample_count,
            x_samples |-> LastN(pattern.x_samples, ConnectionSaveWindow)]],
   connection_pair_samples |-> LastN(st.connection_pair_samples, max_knn_samples),
   learning_sessions |-> LastN(st.learning_sessions, SessionSaveWindow),
   x_spacing_by_level |->
     [k \in DOMAIN st.x_spacing_by_level |->
        LET p == st.x_spacing_by_level[k]
        IN [avg_x_spacing |-> RoundTo(avg_x_spacing(p), 1),
            sample_count |-> p.sample_count]],
   relative_position_patterns |->
     [k \in DOMAIN st.relative_position_patterns |->
        LET p == st.relative_position_patterns[k]
        IN [avg_x_offset |-> RoundTo(avg_x_offset(p), 1),
            source_left_ratio |-> RoundTo(source_left_ratio(p), 100),
            sample_count |-> p.sample_count]]]

\* ------------------------------------------------------------ load
\* The storage file: whether it exists, the document in it, and what is
\* wrong with it: "none", "json" (json.load raises) or the first section
\* whose value has the wrong type.
NoFile == [exists |-> FALSE, bad |-> "none", doc |-> DocOf(FreshStore)]

\* the sections in the order load reads them
Sections ==
  <<"json", "metadata", "component_patterns", "spacing_pattern", "learning_sessions",
    "connection_spacing", "connection_pair_samples", "x_spacing_by_level",
    "relative_position_patterns">>

SectionIndex(sec) == CHOOSE i \in 1..Len(Sections) : Sections[i] = sec

\* load gets to the end of the section before the exception is raised
Applied(f, sec) == f.bad = "none" \/ SectionIndex(sec) < SectionIndex(f.bad)

\* the store after load has read the file
LoadedStore(st, f) ==
  LET data == f.doc
  IN [version |->
        IF Applied(f, "metadata")
        THEN (IF data.version = "none" THEN VERSION ELSE data.version)
        ELSE st.version,
      total_sessions |->
        IF Applied(f, "metadata") THEN data.total_sessions ELSE st.total_sessions,
      component_patterns |->
        IF Applied(f, "component_patterns")
        THEN [n \in DOMAIN st.component_patterns \cup DOMAIN data.component_patterns |->
                IF n \in DOMAIN data.component_patterns
                THEN LET p_data == data.component_patterns[n]
                     IN [avg_offset_x |-> Rat(p_data.avg_offset_x, 10),
                         sample_count |-> p_data.sample_count,
                         weight |-> Rat(p_data.weight, 1000),
                         offset_x_samples |-> p_data.offset_x_samples]
                ELSE st.component_patterns[n]]
        ELSE st.component_patterns,
      spacing_pattern |->
        IF Applied(f, "spacing_pattern")
        THEN [avg_x |-> Rat(data.spacing_pattern.avg_x, 10),
              x_samples |-> data.spacing_pattern.x_samples,
              sample_count |-> data.spacing_pattern.sample_count]
        ELSE st.spacing_pattern,
      learning_sessions |->
        IF Applied(f, "learning_sessions")
        THEN st.learning_sessions \o data.learning_sessions
        ELSE st.learning_sessions,
      connection_spacing |->
        IF Applied(f, "connection_spacing")
        THEN [t \in DOMAIN st.connection_spacing |->
                IF t \in DOMAIN data.connection_spacing
                THEN LET cs_data == data.connection_spacing[t]
                     IN [avg_x |-> Rat(cs_data.avg_x, 10),
                         sample_count |-> cs_data.sample_count,
                         x_samples |-> cs_data.x_samples]
                ELSE st.connection_spacing[t]]
        ELSE st.connection_spacing,
      connection_pair_samples |->
        IF Applied(f, "connection_pair_samples")
        THEN data.connection_pair_samples ELSE st.connection_pair_samples,
      x_spacing_by_level |->
        IF Applied(f, "x_spacing_by_level")
        THEN [k \in DOMAIN data.x_spacing_by_level |->
                [x_spacings |-> <<data.x_spacing_by_level[k].avg_x_spacing>>,
                 sample_count |-> data.x_spacing_by_level[k].sample_count]]
        ELSE st.x_spacing_by_level,
      relative_position_patterns |->
        IF Applied(f, "relative_position_patterns")
        THEN [k \in DOMAIN data.relative_position_patterns |->
                [x_offsets |-> <<data.relative_position_patterns[k].avg_x_offset>>,
                 sample_count |-> data.relative_position_patterns[k].sample_count]]
        ELSE st.relative_position_patterns]

\* the other two parts of the state, at rest
CrossIdle ==
  /\ all_wires = <<>> /\ cpc = "idle" /\ crossings = 0 /\ level_nodes = <<>>
  /\ ml_initial_order = <<>> /\ base_y = 0 /\ current_order = <<>>
  /\ current_crossings = 0 /\ swap_i = 0 /\ improved = FALSE /\ iteration = 0
\* the store of PersistentLayoutLearner() where no storage file exists
StoreIdle ==
  /\ store = FreshStore
  /\ file = NoFile
  /\ sresult = [op |-> "construct", success |-> TRUE, error |-> "none",
                loaded |-> FALSE, truncated |-> {}, raised |-> "none"]

InitLayout == LayoutIdle /\ CrossIdle /\ StoreIdle

NextLayout ==
  \/ CallAuto \/ AutoLevelsStep \/ AutoFinish
  \/ CallV1 \/ CallV9
  \/ CallTopo \/ TopoStep \/ TopoFinish
  \/ CallMaxDepth \/ MaxDepthStep \/ MaxDepthFinish

SpecLayout == InitLayout /\ [][NextLayout]_vars

\* ========================= WireCrossingDetector ========================
\* A Wire: the guids of its two ends and the coordinates of its two ends.
\* In the model a node's guid is the grid point it was read at.
Wire(src, tgt) ==
  [source_guid |-> src, target_guid |-> tgt,
   source_x |-> src[1], source_y |-> src[2],
   target_x |-> tgt[1], target_y |-> tgt[2]]

source_point(w) == <<w.source_x, w.source_y>>
target_point(w) == <<w.target_x, w.target_y>>

ccw(A, B, C) == (C[2] - A[2]) * (B[1] - A[1]) - (B[2] - A[2]) * (C[1] - A[1])

segments_intersect(A, B, C, D) ==
  IF A = C \/ A = D \/ B = C \/ B = D THEN FALSE
  ELSE LET ccw1 == ccw(A, C, D)
           ccw2 == ccw(B, C, D)
           ccw3 == ccw(A, B, C)
           ccw4 == ccw(A, B, D)
       IN ccw1 * ccw2 < 0 /\ ccw3 * ccw4 < 0

detect_crossing(wire1, wire2) ==
  IF wire1.source_guid = wire2.source_guid THEN FALSE
  ELSE IF wire1.target_guid = wire2.target_guid THEN FALSE
  ELSE IF wire1.source_guid = wire2.target_guid THEN FALSE
  ELSE IF wire1.target_guid = wire2.source_guid THEN FALSE
  ELSE segments_intersect(source_point(wire1), target_point(wire1),
                          source_point(wire2), target_point(wire2))

\* an inner loop over every j, which counts a pair from both of its ends
InnerStartAtFirst(i) == 1

\* first j of the inner loop: "for j in range(i + 1, n)"
InnerStart(i) == i + 1

\* the two nested loops of count_crossings, from the pair (i, j) on
RECURSIVE CountFrom(_, _, _)
CountFrom(ws, i, j) ==
  IF i > Len(ws) THEN 0
  ELSE IF j > Len(ws) THEN CountFrom(ws, i + 1, InnerStart(i + 1))
  ELSE (IF detect_crossing(ws[i], ws[j]) THEN 1 ELSE 0) + CountFrom(ws, i, j + 1)

count_crossings(ws) == CountFrom(ws, 1, InnerStart(1))

\* ---------------------------------------------- crossing model bounds
\* slots of a level of the minimizer run over 0..GridMax
GridMax == 1
\* end points of the wires of a detector call
MaxPoints == 5
\* wires of one detector call
MaxDetWires == 3
\* wires of one minimizer call
MaxMinWires == 3

Grid == 0..GridMax
\* the first MaxPoints points of a lattice three columns wide: they hold
\* crossing diagonals, three points in a line and a wire end on a wire
Points == {<<k % 3, k \div 3>> : k \in 0..(MaxPoints - 1)}
PointRank(p) == p[1] * (MaxPoints + GridMax) + p[2]
WireRank(w) ==
  PointRank(<<w.source_x, w.source_y>>) * 3 * (MaxPoints + GridMax)
    + PointRank(<<w.target_x, w.target_y>>)

\* every wire between two different points, either direction
DetectorWires == {Wire(e[1], e[2]) : e \in {x \in Points \X Points : x[1] # x[2]}}

\* a wire list grows by one wire; lists are kept in rank order, one list
\* per wire set
DetAddWire ==
  /\ cpc \in {"idle", "wires"} /\ Len(all_wires) < MaxDetWires
  /\ \E w \in DetectorWires :
       /\ IF all_wires = <<>> THEN TRUE ELSE WireRank(all_wires[Len(all_wires)]) < WireRank(w)
       /\ all_wires' = Append(all_wires, w)
  /\ cpc' = "wires"
  /\ UNCHANGED <<crossings, level_nodes, ml_initial_order, base_y, current_order,
                 current_crossings, swap_i, improved, iteration>>
  /\ UNCHANGED <<lvars, svars>>

\* count_crossings(wires)
DetCount ==
  /\ cpc \in {"idle", "wires"}
  /\ crossings' = count_crossings(all_wires)
  /\ cpc' = "counted"
  /\ UNCHANGED <<all_wires, level_nodes, ml_initial_order, base_y, current_order,
                 current_crossings, swap_i, improved, iteration>>
  /\ UNCHANGED <<lvars, svars>>

\* ========================== CrossingMinimizer ==========================
\* y_spacing of a minimizer call; the model's unit of length is one slot
y_spacing == 1
\* max_iterations of adjacent_swap_optimize
max_iterations == 50

SeqRange(q) == {q[i] : i \in 1..Len(q)}

\* a / b as the pair <<a, b>>, b > 0
RatLess(p, q) == p[1] * q[2] < q[1] * p[2]

RECURSIVE SumOf(_)
SumOf(S) == IF S = {} THEN 0 ELSE LET x == CHOOSE y \in S : TRUE IN x[2] + SumOf(S \ {x})

\* barycenter of one node with prioritize_incoming and no port order:
\* mean y of its sources, else mean y of its targets, else its own y
Barycenter(node, ws) ==
  LET incoming_ys == {<<i, ws[i].source_y>> : i \in {k \in 1..Len(ws) : ws[k].target_guid = node}}
      outgoing_ys == {<<i, ws[i].target_y>> : i \in {k \in 1..Len(ws) : ws[k].source_guid = node}}
  IN IF incoming_ys # {} THEN <<SumOf(incoming_ys), Cardinality(incoming_ys)>>
     ELSE IF outgoing_ys # {} THEN <<SumOf(outgoing_ys), Cardinality(outgoing_ys)>>
     ELSE <<node[2], 1>>

\* sorted(level_nodes, key=barycenters): a stable sort
RECURSIVE InsertByKey(_, _, _)
InsertByKey(sorted, node, ws) ==
  IF sorted = <<>> THEN <<node>>
  ELSE IF RatLess(Barycenter(node, ws), Barycenter(Head(sorted), ws))
  THEN <<node>> \o sorted
  ELSE <<Head(sorted)>> \o InsertByKey(Tail(sorted), node, ws)

RECURSIVE barycenter_order(_, _)
barycenter_order(nodes, ws) ==
  IF nodes = <<>> THEN <<>>
  ELSE InsertByKey(barycenter_order(SubSeq(nodes, 1, Len(nodes) - 1), ws),
                   nodes[Len(nodes)], ws)

\* temp_y of count_crossings_for_order: slot i of the order is at
\* base_y + i * y_spacing; a node listed twice keeps its last slot
TempY(node_y_order, by, node, y) ==
  IF node \in SeqRange(node_y_order)
  THEN by + (MaxOf({i \in 1..Len(node_y_order) : node_y_order[i] = node}) - 1) * y_spacing
  ELSE y

count_crossings_for_order(node_y_order, by, ws) ==
  count_crossings(
    [i \in 1..Len(ws) |->
       [ws[i] EXCEPT !.source_y = TempY(node_y_order, by, ws[i].source_guid, @),
                     !.target_y = TempY(node_y_order, by, ws[i].target_guid, @)]])

\* the swap of slots i and i+1 (1-based)
SwapAt(order, i) ==
  [k \in 1..Len(order) |-> IF k = i THEN order[i + 1] ELSE IF k = i + 1 THEN order[i] ELSE order[k]]

\* the opposite test, which keeps a swap that adds crossings
AcceptSwapIfWorse(new_crossings, cur_crossings) == new_crossings > cur_crossings

\* a swap is kept only if it strictly reduces the crossing count
AcceptSwap(new_crossings, cur_crossings) == new_crossings < cur_crossings

\* The calls of the model: the level is the first m nodes of column 1,
\* wires run from column 0 into the level and from the level to column 2.
LevelColumn(m) == [i \in 1..m |-> <<1, i - 1>>]
MinimizerWires(m) ==
  {Wire(<<0, r>>, <<1, l>>) : r \in Grid, l \in 0..(m - 1)} \cup
  {Wire(<<1, l>>, <<2, r>>) : r \in Grid, l \in 0..(m - 1)}

RECURSIVE WireList(_)
WireList(W) ==
  IF W = {} THEN <<>>
  ELSE LET w == CHOOSE x \in W : \A y \in W : WireRank(x) <= WireRank(y)
       IN <<w>> \o WireList(W \ {w})

\* predicted orders handed to the call: none, the level reversed, or the
\* level with its first node listed again
MlOrders(nodes) ==
  {<<>>, [i \in 1..Len(nodes) |-> nodes[Len(nodes) + 1 - i]], Append(nodes, nodes[1])}

\* minimize_crossings up to the first test of the while loop
MinCall ==
  /\ cpc = "idle"
  /\ \E m \in 1..(GridMax + 1) :
     \E W \in {X \in SUBSET MinimizerWires(m) : Cardinality(X) <= MaxMinWires} :
     \E by \in Grid : \E ml \in MlOrders(LevelColumn(m)) :
       LET nodes == LevelColumn(m)
           ws == WireList(W)
           initial_order == IF ml # <<>> /\ SeqRange(ml) = SeqRange(nodes) THEN ml
                            ELSE barycenter_order(nodes, ws)
       IN /\ all_wires' = ws /\ level_nodes' = nodes
          /\ ml_initial_order' = ml /\ base_y' = by
          /\ IF Len(nodes) < 2
             THEN /\ current_order' = nodes /\ crossings' = 0 /\ cpc' = "returned"
                  /\ UNCHANGED <<current_crossings, improved>>
             ELSE /\ current_order' = initial_order
                  /\ current_crossings' = count_crossings_for_order(initial_order, by, ws)
                  /\ improved' = TRUE /\ cpc' = "while"
                  /\ UNCHANGED crossings
  /\ UNCHANGED <<swap_i, iteration>>
  /\ UNCHANGED <<lvars, svars>>

\* "while improved and iteration < max_iterations" holds: a sweep starts
MinSweep ==
  /\ cpc = "while" /\ improved /\ iteration < max_iterations
  /\ improved' = FALSE /\ iteration' = iteration + 1 /\ swap_i' = 0
  /\ cpc' = "for"
  /\ UNCHANGED <<all_wires, crossings, level_nodes, ml_initial_order, base_y,
                 current_order, current_crossings>>
  /\ UNCHANGED <<lvars, svars>>

\* one pass of "for i in range(n - 1)"
MinSwapStep ==
  /\ cpc = "for" /\ swap_i < Len(current_order) - 1
  /\ LET new_order == SwapAt(current_order, swap_i + 1)
         new_crossings == count_crossings_for_order(new_order, base_y, all_wires)
     IN IF AcceptSwap(new_crossings, current_crossings)
        THEN /\ current_order' = new_order
             /\ current_crossings' = new_crossings
             /\ improved' = TRUE
        ELSE UNCHANGED <<current_order, current_crossings, improved>>
  /\ swap_i' = swap_i + 1
  /\ UNCHANGED <<all_wires, cpc, crossings, level_nodes, ml_initial_order, base_y, iteration>>
  /\ UNCHANGED <<lvars, svars>>

\* the for loop is exhausted: back to the test of the while loop
MinSweepEnd ==
  /\ cpc = "for" /\ swap_i >= Len(current_order) - 1
  /\ cpc' = "while"
  /\ UNCHANGED <<all_wires, crossings, level_nodes, ml_initial_order, base_y,
                 current_order, current_crossings, swap_i, improved, iteration>>
  /\ UNCHANGED <<lvars, svars>>

\* the while loop ends: final count and return
MinReturn ==
  /\ cpc = "while" /\ ~(improved /\ iteration < max_iterations)
  /\ crossings' = count_crossings_for_order(current_order, base_y, all_wires)
  /\ cpc' = "returned"
  /\ UNCHANGED <<all_wires, level_nodes, ml_initial_order, base_y, current_order,
                 current_crossings, swap_i, improved, iteration>>
  /\ UNCHANGED <<lvars, svars>>

InitCross == LayoutIdle /\ CrossIdle /\ StoreIdle

NextCross ==
  \/ DetAddWire \/ DetCount
  \/ MinCall \/ MinSweep \/ MinSwapStep \/ MinSweepEnd \/ MinReturn

SpecCross == InitCross /\ [][NextCross]_vars

\* ================ PersistentLayoutLearner: the store operations ========
\* what an operation of the store returned
Returned(o, ok, err, ld, tr) ==
  [op |-> o, success |-> ok, error |-> err, loaded |-> ld, truncated |-> tr,
   raised |-> "none"]

\* the operation returned nothing: exception exc reached its caller
Raised(o, exc) ==
  [op |-> o, success |-> FALSE, error |-> "none", loaded |-> FALSE,
   truncated |-> {}, raised |-> exc]

\* a run of the program holds the store; between two runs there is only
\* the file
Running == sresult.op # "exit"

WirePairs == {<<Px(100), Px(300)>>, <<Px(300), Px(100)>>, <<0, Px(100)>>}

\* learn_from_canvas(components, wires), the save at its end included, on a
\* store that has had fewer than max_sessions learning calls
LearnCall(max_sessions) ==
  /\ Running /\ store.total_sessions < max_sessions
  /\ \E pairs \in SeqsUpTo(WirePairs, MaxLearnWires), extra \in 0..2 :
       /\ pairs # <<>> => extra = 0
       /\ IF 2 * Len(pairs) + extra < 2
          THEN /\ store' = store
               /\ file' = file
               /\ sresult' = Returned("learn", FALSE, "Not enough components to learn",
                                      FALSE, {})
          ELSE /\ store' = LearnedStore(store, pairs)
               /\ file' = [exists |-> TRUE, bad |-> "none", doc |-> DocOf(store')]
               /\ sresult' = Returned("learn", TRUE, "none", FALSE,
                                      Truncated(store, pairs))
  /\ UNCHANGED <<lvars, cvars>>

LearnFromCanvas == LearnCall(MaxLearns)

\* save()
Save ==
  /\ Running
  /\ store' = store
  /\ file' = [exists |-> TRUE, bad |-> "none", doc |-> DocOf(store)]
  /\ sresult' = Returned("save", TRUE, "none", FALSE, {})
  /\ UNCHANGED <<lvars, cvars>>

\* what load() returns for the file
LoadResult(o, f) ==
  IF ~f.exists THEN Returned(o, TRUE, "none", FALSE, {})
  ELSE IF f.bad = "none" THEN Returned(o, TRUE, "none", TRUE, {})
  ELSE Returned(o, FALSE, "exception", FALSE, {})

\* load() on the running store
Load ==
  /\ Running
  /\ Len(store.learning_sessions) + Len(file.doc.learning_sessions) <= MaxLearns
  /\ store' = IF file.exists THEN LoadedStore(store, file) ELSE store
  /\ file' = file
  /\ sresult' = LoadResult("load", file)
  /\ UNCHANGED <<lvars, cvars>>

\* PersistentLayoutLearner(storage_path): a new store on the same file
Construct ==
  /\ store' = IF file.exists THEN LoadedStore(FreshStore, file) ELSE FreshStore
  /\ file' = file
  /\ sresult' = LoadResult("construct", file)
  /\ UNCHANGED <<lvars, cvars>>

InitStore == LayoutIdle /\ CrossIdle /\ StoreIdle

NextStore == LearnFromCanvas \/ Save \/ Load \/ Construct

SpecStore == InitStore /\ [][NextStore]_vars

\* ------------------------------------------- the storage file between runs
\* learning calls before the file is replaced
MaxForeignLearns == 1

\* The run ends and the file it leaves is replaced: by a document another
\* schema version wrote, a document without a version field, a file that is
\* not JSON, or a document one of whose sections has a value of the wrong
\* type.
ForeignVersions == {"2.0", "none"}
BadSections == {"json", "learning_sessions"}

ForeignFile ==
  /\ Running /\ file.exists /\ file.bad = "none" /\ file.doc.version = VERSION
  /\ \E t \in ForeignVersions \cup BadSections :
       file' = IF t \in ForeignVersions THEN [file EXCEPT !.doc.version = t]
               ELSE [file EXCEPT !.bad = t]
  /\ store' = store
  /\ sresult' = Returned("exit", TRUE, "none", FALSE, {})
  /\ UNCHANGED <<lvars, cvars>>

\* the list q repeated up to n entries
Padded(q, n) == [i \in 1..n |-> q[((i - 1) % Len(q)) + 1]]

\* The run ends and the file it leaves is replaced by the document of a
\* store that kept more samples: one whose max_knn_samples attribute was set
\* higher, so that the pool in the document is one longer than this store's
\* cap.
LongerFile ==
  /\ Running /\ file.exists /\ file.bad = "none" /\ file.doc.version = VERSION
  /\ file.doc.connection_pair_samples # <<>>
  /\ file' = [file EXCEPT !.doc.connection_pair_samples =
                            Padded(@, max_knn_samples + 1)]
  /\ store' = store
  /\ sresult' = Returned("exit", TRUE, "none", FALSE, {})
  /\ UNCHANGED <<lvars, cvars>>

\* clear(): every collection back to its initial value (the version field
\* is not touched) and the storage file deleted
Clear ==
  /\ Running
  /\ store' = [FreshStore EXCEPT !.version = store.version]
  /\ file' = NoFile
  /\ sresult' = Returned("clear", TRUE, "none", FALSE, {})
  /\ UNCHANGED <<lvars, cvars>>

LearnThenStop == LearnCall(MaxForeignLearns)

InitFile == LayoutIdle /\ CrossIdle /\ StoreIdle

NextFile ==
  \/ LearnThenStop \/ Save \/ Load \/ Construct \/ ForeignFile \/ LongerFile
  \/ Clear

SpecFile == InitFile /\ [][NextFile]_vars

\* ------------------------------------- faults of the storage and of set-up
\* learning calls of a store whose storage path may be unwritable
MaxFaultLearns == 1

\* save() where the storage path cannot be written (its parent is a regular
\* file, or the path is a directory): mkdir or open raises, save has no
\* handler, the file is as it was
SaveUnwritable ==
  /\ Running
  /\ store' = store
  /\ file' = file
  /\ sresult' = Raised("save", "OSError")
  /\ UNCHANGED <<lvars, cvars>>

\* learn_from_canvas where the storage path cannot be written: the passes
\* over the canvas have updated the store when self.save() raises
LearnUnwritable ==
  /\ Running /\ store.total_sessions < MaxFaultLearns
  /\ \E pairs \in SeqsUpTo(WirePairs, MaxLearnWires) :
       /\ pairs # <<>>
       /\ store' = LearnedStore(store, pairs)
       /\ file' = file
       /\ sresult' = Raised("learn", "OSError")
  /\ UNCHANGED <<lvars, cvars>>

\* the members of the ComponentType enumeration
ComponentTypeMembers ==
  {"INPUT_PARAM", "OUTPUT_PARAM", "DATA_PARAM", "GEOMETRY_PRIMITIVE",
   "GEOMETRY_SURFACE", "GEOMETRY_MESH", "MATH_BASIC", "MATH_DOMAIN",
   "MATH_TRIG", "LIST_ACCESS", "LIST_MODIFY", "TREE_MODIFY", "TRANSFORM",
   "LOGIC", "UTIL", "UNKNOWN"}

\* the members _init_default_type_priority reads, in the order it reads them
TypePriorityMembers ==
  <<"INPUT_PARAM", "MATH", "LOGIC", "LIST", "TREE", "GEOMETRY", "TRANSFORM",
    "UTIL", "OUTPUT_PARAM", "UNKNOWN">>

\* YOrderLearner(storage_path): __init__ calls _init_default_type_priority
\* before load; reading a name the enumeration does not have raises
YOrderConstruct ==
  /\ Running
  /\ store' = store
  /\ file' = file
  /\ sresult' =
       IF \A i \in 1..Len(TypePriorityMembers) :
            TypePriorityMembers[i] \in ComponentTypeMembers
       THEN Returned("y_construct", TRUE, "none", FALSE, {})
       ELSE Raised("y_construct", "AttributeError")
  /\ UNCHANGED <<lvars, cvars>>

LearnOnce == LearnCall(MaxFaultLearns)

InitFault == LayoutIdle /\ CrossIdle /\ StoreIdle

NextFault ==
  \/ LearnOnce \/ Save \/ Load \/ Construct \/ Clear
  \/ SaveUnwritable \/ LearnUnwritable \/ YOrderConstruct

SpecFault == InitFault /\ [][NextFault]_vars

\* ========================== queries of the store =======================
\* samples of the pool a query runs on
MaxPool == 2
\* the k of a predict_offset_knn call (5 by default)
MaxK == 2

\* 10 * score of one sample for a query: the if/elif chain of
\* predict_offset_knn
Score(sample, source_name, target_name, source_type, target_type) ==
  IF sample.source_name = source_name /\ sample.target_name = target_name THEN 40
  ELSE IF sample.source_name = source_name THEN 20
  ELSE IF sample.target_name = target_name THEN 15
  ELSE IF sample.source_type = source_type /\ sample.target_type = target_type
       THEN 10
  ELSE IF sample.source_type = source_type \/ sample.target_type = target_type
       THEN 5
  ELSE 0

\* scored_samples: <<score, sample>> of the samples with score > 0, in
\* pool order
RECURSIVE ScoredSamples(_, _)
ScoredSamples(pool, q) ==
  IF pool = <<>> THEN <<>>
  ELSE LET score == Score(Head(pool), q.source_name, q.target_name,
                          q.source_type, q.target_type)
       IN (IF score > 0 THEN <<<<score, Head(pool)>>>> ELSE <<>>)
          \o ScoredSamples(Tail(pool), q)

\* the list left as the loop built it
SortByScoreKeepOrder(scored) == scored

\* scored_samples.sort(key=score, reverse=True): stable, equal scores keep
\* their pool order
RECURSIVE SortByScore(_)
SortByScore(scored) ==
  IF scored = <<>> THEN <<>>
  ELSE LET rest == SortByScore(Tail(scored))
           k == Cardinality({i \in 1..Len(rest) : rest[i][1] > Head(scored)[1]})
       IN SubSeq(rest, 1, k) \o <<Head(scored)>> \o SubSeq(rest, k + 1, Len(rest))

RECURSIVE ScoreSum(_)
ScoreSum(top_k) == IF top_k = <<>> THEN 0 ELSE Head(top_k)[1] + ScoreSum(Tail(top_k))

RECURSIVE ScoredOffsetSum(_)
ScoredOffsetSum(top_k) ==
  IF top_k = <<>> THEN 0
  ELSE Head(top_k)[1] * Head(top_k)[2].offset_x + ScoredOffsetSum(Tail(top_k))

\* predict_offset_knn(source_name, target_name, source_type, target_type, k):
\* the offset_x and the confidence it returns
predict_offset_knn(st, q, k) ==
  IF st.connection_pair_samples = <<>>
  THEN [offset_x |-> <<Px(200), 1>>, confidence |-> <<0, 1>>]
  ELSE LET scored_samples == ScoredSamples(st.connection_pair_samples, q)
           sorted == SortByScore(scored_samples)
           top_k == SubSeq(sorted, 1, MinOf({k, Len(sorted)}))
       IN IF scored_samples = <<>>
          THEN [offset_x |-> st.spacing_pattern.avg_x, confidence |-> <<1, 10>>]
          ELSE [offset_x |-> Rat(ScoredOffsetSum(top_k), ScoreSum(top_k)),
                confidence |-> IF top_k[1][1] >= 40 THEN <<1, 1>>
                               ELSE Rat(top_k[1][1], 40)]

\* sorted(values)
RECURSIVE SortAsc(_)
SortAsc(s) ==
  IF s = <<>> THEN <<>>
  ELSE LET rest == SortAsc(Tail(s))
           k == Cardinality({i \in 1..Len(rest) : rest[i] <= Head(s)})
       IN SubSeq(rest, 1, k) \o <<Head(s)>> \o SubSeq(rest, k + 1, Len(rest))

RECURSIVE MatchingOffsets(_, _, _)
MatchingOffsets(pool, source_name, target_name) ==
  IF pool = <<>> THEN <<>>
  ELSE (IF Head(pool).source_name = source_name /\ Head(pool).target_name = target_name
        THEN <<Head(pool).offset_x>> ELSE <<>>)
       \o MatchingOffsets(Tail(pool), source_name, target_name)

\* _get_learned_offset(source_name, target_name, min_samples): the median dx
\* of the samples of the name pair, or None
get_learned_offset(st, source_name, target_name, min_samples) ==
  LET dx_values == SortAsc(MatchingOffsets(st.connection_pair_samples,
                                           source_name, target_name))
      n == Len(dx_values)
  IN
  IF n = 0 \/ n < min_samples THEN [signal |-> "None"]
  ELSE IF n % 2 = 0
       THEN [signal |-> "value",
             dx |-> Rat(dx_values[n \div 2] + dx_values[n \div 2 + 1], 2)]
       ELSE [signal |-> "value", dx |-> <<dx_values[n \div 2 + 1], 1>>]

\* The names, types and offsets of the samples and of the queries.
QueryTypes == {"math_basic", "transform"}
QueryOffsets == {Px(100), Px(300)}
QuerySamples ==
  {ConnectionPairSample(s, t, st, tt, dx) :
     s \in {"A", "X"}, t \in {"B", "X"}, st \in QueryTypes, tt \in QueryTypes,
     dx \in QueryOffsets}
Queries ==
  [source_name : {"A"}, target_name : {"B"},
   source_type : QueryTypes, target_type : {"transform"}]

RECURSIVE OffsetsOf(_)
OffsetsOf(pool) ==
  IF pool = <<>> THEN <<>> ELSE <<Head(pool).offset_x>> \o OffsetsOf(Tail(pool))

\* the pool and the global spacing pattern after learning wires that gave
\* these samples; the queries read nothing else of the store
QueryStore(samples) ==
  [FreshStore EXCEPT
     !.connection_pair_samples = PoolAppendAll(<<>>, samples),
     !.spacing_pattern = SpacingAddAll(SpacingPattern, OffsetsOf(samples))]

PredictOffsetKnn ==
  /\ Running
  /\ \E q \in Queries, k \in 1..MaxK :
       sresult' = [op |-> "predict_offset_knn", raised |-> "none", query |-> q,
                   k |-> k, value |-> predict_offset_knn(store, q, k)]
  /\ UNCHANGED <<store, file, lvars, cvars>>

GetLearnedOffset ==
  /\ Running
  /\ \E s \in {"A", "X"}, t \in {"B"}, min_samples \in 1..2 :
       sresult' = [op |-> "_get_learned_offset", raised |-> "none",
                   query |-> [source_name |-> s, target_name |-> t],
                   k |-> min_samples,
                   value |-> get_learned_offset(store, s, t, min_samples)]
  /\ UNCHANGED <<store, file, lvars, cvars>>

InitQuery ==
  /\ LayoutIdle /\ CrossIdle
  /\ file = NoFile
  /\ sresult = Returned("construct", TRUE, "none", FALSE, {})
  /\ store \in {QueryStore(samples) : samples \in SeqsUpTo(QuerySamples, MaxPool)}

NextQuery == PredictOffsetKnn \/ GetLearnedOffset

SpecQuery == InitQuery /\ [][NextQuery]_vars

\* ------------------------------------------------- component categories
\* components of one classified canvas
MaxClassNodes == 2
\* wires of one classified canvas
MaxClassWires == 2

\* COMPONENT_TYPE_MAP, for the names of the classified canvases; "none" for
\* a name the map does not have
COMPONENT_TYPE_MAP(name) ==
  CASE name = "Number Slider" -> "input_param"
    [] name = "Panel" -> "input_param"
    [] name = "Number" -> "data_param"
    [] name = "Data Recorder" -> "output_param"
    [] OTHER -> "none"

\* classify_component_type(name, category, subcategory, has_inputs,
\* has_outputs) of a record without category and subcategory
classify_component_type(name, has_inputs, has_outputs) ==
  IF COMPONENT_TYPE_MAP(name) # "none"
  THEN IF name = "Panel" /\ ~has_inputs THEN "output_param"
       ELSE COMPONENT_TYPE_MAP(name)
  ELSE IF ~has_inputs /\ has_outputs THEN "input_param"
  ELSE IF has_inputs /\ ~has_outputs THEN "output_param"
  ELSE "unknown"

\* the category by name alone, as learn_from_canvas asks for it
classify_by_name(name, has_incoming, has_outgoing) ==
  classify_component_type(name, TRUE, TRUE)

DYNAMIC_PARAM_COMPONENTS ==
  {"Panel", "Point", "Curve", "Surface", "Brep", "Mesh", "Geometry",
   "Integer", "Number", "Text", "Data", "Boolean"}

\* classify_by_connection, from the name of the component and from whether
\* its incoming and outgoing sets are non-empty
classify_by_connection(name, has_incoming, has_outgoing) ==
  IF name \in DYNAMIC_PARAM_COMPONENTS
  THEN IF has_incoming /\ ~has_outgoing THEN "output_param"
       ELSE IF has_outgoing /\ ~has_incoming THEN "input_param"
       ELSE IF has_incoming /\ has_outgoing THEN "data_param"
       ELSE "input_param"
  ELSE IF name \in {"Number Slider", "Boolean Toggle", "Value List", "MD Slider",
                    "Digit Scroller", "Colour Swatch", "Gradient", "Graph Mapper",
                    "Image Sampler"}
  THEN "input_param"
  ELSE IF name \in {"Data Recorder", "Param Viewer"} THEN "output_param"
  ELSE classify_component_type(name, has_incoming, has_outgoing)

\* the names of the components of the classified canvases
ClassNames == {"Panel", "Number", "Number Slider", "Data Recorder", "Cluster"}

\* the wire records of a canvas of n components: an end may name a guid
\* that is not on the canvas
ClassWires(n) ==
  {ws \in SUBSET ((1..(n + 1)) \X (1..(n + 1))) : Cardinality(ws) <= MaxClassWires}

\* incoming / outgoing of calculate_auto_layout: a wire counts when both its
\* ends are in comp_map
incoming(guid, cmap, ws) == {w[1] : w \in {v \in ws : v[2] = guid /\ v[1] \in cmap}}
outgoing(guid, cmap, ws) == {w[2] : w \in {v \in ws : v[1] = guid /\ v[2] \in cmap}}

\* the comp_types loop of calculate_auto_layout
comp_types(names, ws) ==
  [guid \in DOMAIN names |->
     classify_by_connection(names[guid],
                            incoming(guid, DOMAIN names, ws) # {},
                            outgoing(guid, DOMAIN names, ws) # {})]

\* calculate_auto_layout up to the classification of its components, on the
\* canvas it was called with
ClassifyComponents ==
  /\ sresult.op = "canvas"
  /\ sresult' = [sresult EXCEPT !.op = "comp_types",
                                !.value = comp_types(sresult.names, sresult.wires)]
  /\ UNCHANGED <<store, file, lvars, cvars>>

InitClassify ==
  /\ LayoutIdle /\ CrossIdle
  /\ store = FreshStore /\ file = NoFile
  /\ \E names \in [1..MaxClassNodes -> ClassNames] :
       \E ws \in ClassWires(MaxClassNodes) :
         sresult = [op |-> "canvas", raised |-> "none", names |-> names,
                    wires |-> ws, value |-> <<>>]

NextClassify == ClassifyComponents

SpecClassify == InitClassify /\ [][NextClassify]_vars

\* ------------------------------------------- placement of the v1 layout
\* Lengths are in tenths of a pixel, as in the store.
\* DX of _calculate_layout_v1: 200 px
DX == 2000
\* DY of _calculate_layout_v1: 80 px
DY == 800
\* get_height of a record without a height: 50 px
DefaultHeight == 500
\* MIN_GAP of _resolve_overlaps_v1: 20 px
MIN_GAP == 200

\* nodes of the longest chain laid out
MaxChain == 3
\* targets of the widest fan laid out
MaxFan == 3
\* samples of the pair A -> B in the store at the layout call
MaxPairSamples == 5

\* the names of the components, in the order sorted() gives them
NodeNames == <<"A", "B", "C", "D", "E", "S", "T1", "T2", "T3", "T4", "T5">>
NameRank(name) == CHOOSE i \in 1..Len(NodeNames) : NodeNames[i] = name

\* A canvas of the scenarios: component i has guid i and name names[i], no
\* height, input_count or output_count; the wires carry no indices.  The
\* canvases are chains and fans: connected, acyclic, and no component has
\* two sources.
ChainCanvas(n) ==
  [names |-> [i \in 1..n |-> NodeNames[i]],
   wires |-> [i \in 1..(n - 1) |-> <<i, i + 1>>]]

FanCanvas(f, reversed) ==
  [names |-> [i \in 1..(f + 1) |-> IF i = 1 THEN "S" ELSE NodeNames[NameRank("S") + i - 1]],
   wires |-> [i \in 1..f |-> IF reversed THEN <<1, f + 2 - i>> ELSE <<1, i + 1>>]]

PlaceCanvases ==
  {ChainCanvas(n) : n \in 2..MaxChain}
  \cup {FanCanvas(f, r) : f \in 1..MaxFan, r \in BOOLEAN}

WireSet(canvas) == {canvas.wires[i] : i \in 1..Len(canvas.wires)}

\* sinks.sort(key=(-depth, name)): stable, over the sinks in comp_map order
RECURSIVE SortSinks(_, _, _)
SortSinks(sinks, depth, names) ==
  IF sinks = <<>> THEN <<>>
  ELSE LET rest == SortSinks(Tail(sinks), depth, names)
           g == Head(sinks)
           Before(h) == \/ depth[h] > depth[g]
                        \/ depth[h] = depth[g] /\ NameRank(names[h]) < NameRank(names[g])
           k == Cardinality({i \in 1..Len(rest) : Before(rest[i])})
       IN SubSeq(rest, 1, k) \o <<g>> \o SubSeq(rest, k + 1, Len(rest))

\* the sinks, one below the other from start_y, each at the x of its depth
V1PlaceSinks(sinks, depth, start) ==
  [i \in 1..Len(sinks) |->
     <<sinks[i], start[1] + depth[sinks[i]] * DX,
       start[2] + (i - 1) * (DefaultHeight + DY)>>]

\* the y of a placed guid in the list of <<guid, x, y>>
PlacedY(placed, g) == placed[CHOOSE i \in 1..Len(placed) : placed[i][1] = g][3]
PlacedGuids(placed) == {placed[i][1] : i \in 1..Len(placed)}

\* calculate_source_y: the y of the target of the source's first wire to a
\* placed component (one input and one output node: no node offset)
calculate_source_y(src, wire_details, placed) ==
  LET valid_wires == {i \in 1..Len(wire_details) :
                        /\ wire_details[i][1] = src
                        /\ wire_details[i][2] \in PlacedGuids(placed)}
  IN PlacedY(placed, wire_details[MinOf(valid_wires)][2])

\* the reverse BFS from the sinks: a source goes to the x of its depth and
\* to the y calculate_source_y gives (a wire to the placed node it was
\* reached from always exists)
RECURSIVE V1ReverseBFS(_, _, _, _, _)
V1ReverseBFS(bfs_queue, placed, canvas, depth, start) ==
  IF bfs_queue = <<>> THEN placed
  ELSE LET current_node == Head(bfs_queue)
           sources == Ascending({s \in DOMAIN canvas.names :
                                   /\ <<s, current_node>> \in WireSet(canvas)
                                   /\ s \notin PlacedGuids(placed)})
       IN IF sources = <<>>
          THEN V1ReverseBFS(Tail(bfs_queue), placed, canvas, depth, start)
          ELSE LET src == sources[1]
                   x == start[1] + depth[src] * DX
                   y == calculate_source_y(src, canvas.wires, placed)
               IN V1ReverseBFS(Append(Tail(bfs_queue), src), Append(placed, <<src, x, y>>),
                               canvas, depth, start)

\* _calculate_layout_v1 on a canvas of one subgraph: <<guid, x, y>> in the
\* order the positions were entered
calculate_layout_v1(canvas, start) ==
  LET cm == DOMAIN canvas.names
      w == WireSet(canvas)
      depth == V1Depth(cm, w)
      sinks == SortSinks(Ascending({g \in cm : Outgoing(cm, w, g) = {}}), depth,
                         canvas.names)
      placed == V1PlaceSinks(sinks, depth, start)
  IN V1ReverseBFS(sinks, placed, canvas, depth, start)

\* bucket = round(x / 50) * 50
XBucket(x) == RoundTo(Rat(x, 500), 1) * 500

\* items.sort(key=y): stable
RECURSIVE SortByY(_)
SortByY(items) ==
  IF items = <<>> THEN <<>>
  ELSE LET rest == SortByY(Tail(items))
           k == Cardinality({i \in 1..Len(rest) : rest[i][3] < Head(items)[3]})
       IN SubSeq(rest, 1, k) \o <<Head(items)>> \o SubSeq(rest, k + 1, Len(rest))

\* the sweep down one x column: an item nearer than its height + MIN_GAP
\* to the one above it is pushed down
RECURSIVE PushDown(_, _)
PushDown(items, prev_y) ==
  IF items = <<>> THEN <<>>
  ELSE LET min_y == prev_y + DefaultHeight + MIN_GAP
           y == IF Head(items)[3] < min_y THEN min_y ELSE Head(items)[3]
       IN <<<<Head(items)[1], Head(items)[2], y>>>> \o PushDown(Tail(items), y)

SelectBucket(placed, bucket) ==
  SelectSeq(placed, LAMBDA item : XBucket(item[2]) = bucket)

\* _resolve_overlaps_v1: guid -> <<x, y>>
resolve_overlaps_v1(placed) ==
  [g \in PlacedGuids(placed) |->
     LET x == placed[CHOOSE i \in 1..Len(placed) : placed[i][1] = g][2]
         items == SortByY(SelectBucket(placed, XBucket(x)))
         swept == <<items[1]>> \o PushDown(Tail(items), items[1][3])
     IN <<x, PlacedY(swept, g)>>]

\* the positions calculate_auto_layout_v1 moves the components to
layout_v1(canvas, start) == resolve_overlaps_v1(calculate_layout_v1(canvas, start))

\* the branching pass of learn_from_canvas for one source of the canvas
\* with two or more targets: y_offsets are tgt_y - src_y of its wires
learn_branching(branching_patterns, source_name, y_offsets) ==
  LET sorted == SortAsc(y_offsets)
      n == Len(sorted)
      new_spacing == Rat(sorted[n] - sorted[1], n - 1)
      key == <<source_name, n>>
  IN IF key \in DOMAIN branching_patterns
     THEN LET existing == branching_patterns[key]
          IN [branching_patterns EXCEPT ![key] =
                [existing EXCEPT
                   !.y_spacing =
                     Rat(existing.y_spacing[1] * existing.sample_count * new_spacing[2]
                           + new_spacing[1] * existing.y_spacing[2],
                         existing.y_spacing[2] * new_spacing[2]
                           * (existing.sample_count + 1)),
                   !.sample_count = existing.sample_count + 1]]
     ELSE (key :> [source_name |-> source_name, target_count |-> n,
                   y_spacing |-> new_spacing, y_offsets |-> sorted,
                   sample_count |-> 1]) @@ branching_patterns

\* learning calls on the fan the branching pattern comes from
MaxBranchLearns == 2

\* branching_patterns after learning, k times, a canvas where "S" feeds
\* three targets 80 px apart, the middle one level with "S"
RECURSIVE BranchingAfter(_)
BranchingAfter(k) ==
  IF k = 0 THEN EmptyMap
  ELSE learn_branching(BranchingAfter(k - 1), "S", <<Px(0 - 80), 0, Px(80)>>)

\* the store after learning a canvas of n wires "A" -> "B", each with
\* dx = 120 px and dy = 0
PairStore(n) ==
  IF n = 0 THEN FreshStore
  ELSE LearnedStore(FreshStore, [i \in 1..n |-> <<Px(100), Px(220)>>])

\* the anchors (start_x, start_y) of the calls
PlaceAnchors == {<<Px(100), Px(100)>>, <<0, Px(40)>>}

\* calculate_auto_layout_v1(components, wires, start_x, start_y) on the
\* canvas the state holds
LayoutV1 ==
  /\ sresult.op = "canvas"
  /\ sresult' = [sresult EXCEPT
                   !.op = "calculate_auto_layout_v1",
                   !.value = layout_v1(sresult.canvas, sresult.start)]
  /\ UNCHANGED <<store, file, lvars, cvars>>

InitPlace ==
  /\ LayoutIdle /\ CrossIdle
  /\ \E n \in 0..MaxPairSamples :
       /\ store = PairStore(n)
       /\ file = IF n = 0 THEN NoFile
                 ELSE [exists |-> TRUE, bad |-> "none", doc |-> DocOf(PairStore(n))]
  /\ \E canvas \in PlaceCanvases, start \in PlaceAnchors, k \in 0..MaxBranchLearns :
       sresult = [op |-> "canvas", raised |-> "none", canvas |-> canvas,
                  start |-> start, branching_patterns |-> BranchingAfter(k),
                  value |-> <<>>]

NextPlace == LayoutV1

SpecPlace == InitPlace /\ [][NextPlace]_vars

\* --------------------------------------- topology levels by one BFS pass
\* components of a canvas whose levels are computed
MaxLevelNodes == 4

\* The canvases: components 1..n in comp_map order and wires i -> j with
\* i < j, so the graph has no directed cycle.
LevelWires(n) == SUBSET {e \in (1..n) \X (1..n) : e[1] < e[2]}

\* the targets of guid in the order the set outgoing[guid] is iterated:
\* rank is an order of all guids
RECURSIVE InOrder(_, _)
InOrder(rank, S) ==
  IF rank = <<>> THEN <<>>
  ELSE (IF Head(rank) \in S THEN <<Head(rank)>> ELSE <<>>) \o InOrder(Tail(rank), S)

\* the level BFS of learn_from_canvas: a component popped again gets the
\* larger level and is not expanded again
RECURSIVE LearnLevels(_, _, _, _, _, _)
LearnLevels(bfs_queue, levels, seen, cm, w, rank) ==
  IF bfs_queue = <<>> THEN levels
  ELSE LET guid == Head(bfs_queue)[1]
           level == Head(bfs_queue)[2]
       IN IF guid \in seen
          THEN LearnLevels(Tail(bfs_queue),
                           IF guid \in DOMAIN levels /\ level > levels[guid]
                           THEN [levels EXCEPT ![guid] = level] ELSE levels,
                           seen, cm, w, rank)
          ELSE LearnLevels(Tail(bfs_queue) \o Pushed(InOrder(rank, Outgoing(cm, w, guid)),
                                                     level + 1),
                           (guid :> MaxOf({EntryOr(levels, guid, 0), level})) @@ levels,
                           seen \cup {guid}, cm, w, rank)

\* node_levels of learn_from_canvas
learn_node_levels(cm, w, rank) ==
  LET source_nodes == Ascending({g \in cm : Incoming(cm, w, g) = {}})
  IN LearnLevels(Pushed(source_nodes, 0), EmptyMap, {}, cm, w, rank)

\* the level BFS of FeatureExtractor._calculate_topology_levels
RECURSIVE FeatureLevels(_, _, _, _, _)
FeatureLevels(bfs_queue, levels, cm, w, rank) ==
  IF bfs_queue = <<>> THEN levels
  ELSE LET guid == Head(bfs_queue)[1]
           level == Head(bfs_queue)[2]
       IN IF guid \in DOMAIN levels
          THEN FeatureLevels(Tail(bfs_queue),
                             [levels EXCEPT ![guid] = MaxOf({levels[guid], level})],
                             cm, w, rank)
          ELSE FeatureLevels(Tail(bfs_queue) \o Pushed(InOrder(rank, Outgoing(cm, w, guid)),
                                                       level + 1),
                             (guid :> level) @@ levels, cm, w, rank)

\* FeatureExtractor._calculate_topology_levels
feature_topology_levels(cm, w, rank) ==
  LET sources == Ascending({g \in cm : Incoming(cm, w, g) = {}})
      levels == FeatureLevels(Pushed(sources, 0), EmptyMap, cm, w, rank)
  IN [g \in cm |-> EntryOr(levels, g, 0)]

\* the level pass of learn_from_canvas on the canvas the state holds
LearnTopologyLevels ==
  /\ sresult.op = "level_canvas"
  /\ \E rank \in Perms(sresult.comp_map) :
       sresult' = [sresult EXCEPT
                     !.op = "learn_node_levels",
                     !.value = learn_node_levels(sresult.comp_map, sresult.wires, rank)]
  /\ UNCHANGED <<store, file, lvars, cvars>>

\* FeatureExtractor._calculate_topology_levels on the canvas
FeatureTopologyLevels ==
  /\ sresult.op = "level_canvas"
  /\ \E rank \in Perms(sresult.comp_map) :
       sresult' = [sresult EXCEPT
                     !.op = "feature_topology_levels",
                     !.value = feature_topology_levels(sresult.comp_map, sresult.wires, rank)]
  /\ UNCHANGED <<store, file, lvars, cvars>>

\* the depth pass of _calculate_layout_v1 on the canvas
V1DepthPass ==
  /\ sresult.op = "level_canvas"
  /\ sresult' = [sresult EXCEPT
                   !.op = "v1_depth",
                   !.value = V1Depth(sresult.comp_map, sresult.wires)]
  /\ UNCHANGED <<store, file, lvars, cvars>>

InitLevels ==
  /\ LayoutIdle /\ CrossIdle
  /\ store = FreshStore /\ file = NoFile
  /\ \E n \in 2..MaxLevelNodes : \E w \in LevelWires(n) :
       sresult = [op |-> "level_canvas", raised |-> "none", comp_map |-> 1..n,
                  wires |-> w, value |-> <<>>]

NextLevels == LearnTopologyLevels \/ FeatureTopologyLevels \/ V1DepthPass

SpecLevels == InitLevels /\ [][NextLevels]_vars

\* ------------------------------- subgraph templates in calculate_auto_layout
\* components of a canvas laid out with templates
MaxTemplateNodes == 3
\* wires of such a canvas
MaxTemplateWires == 2

\* the names of the components, and the pattern keys ("A->B", ...) the
\* store may hold a template for, as name sequences
TemplateNames == {"A", "B"}
TemplateKeys == {<<"A", "B">>, <<"B", "A">>, <<"A", "B", "A">>}

\* subgraph_templates: pattern key -> sample_count.  A template has one
\* node for every name of its key, as learn_from_canvas builds it.
TemplateStores ==
  UNION {{[k \in keys |-> 1], [k \in keys |-> Len(k)]} : keys \in SUBSET TemplateKeys}

TemplateWires(n) ==
  {ws \in SUBSET {e \in (1..n) \X (1..n) : e[1] # e[2]} :
     Cardinality(ws) <= MaxTemplateWires}

PathNames(path, names) == [i \in 1..Len(path) |-> names[path[i]]]

InPath(path, g) == \E i \in 1..Len(path) : path[i] = g

\* the paths the expansion of a path appends to the queue, the targets in
\* set-iteration order rank; a path of five is not extended
ExtendPath(path, cm, w, rank) ==
  IF Len(path) >= 5 THEN <<>>
  ELSE LET nexts == InOrder(rank, {t \in Outgoing(cm, w, path[Len(path)]) :
                                     ~InPath(path, t)})
       IN [i \in 1..Len(nexts) |-> Append(path, nexts[i])]

\* iteration orders of a set of guids: ascending and descending, which are
\* all the orders of the targets of a component with at most two of them
TemplateRanks(S) ==
  {[g \in S |-> g], [g \in S |-> MaxOf(S) + 1 - g]}

\* the check the matcher makes before it records a match
NoneUsed(path, used_guids) == \A i \in 1..Len(path) : path[i] \notin used_guids

\* the matcher without that check
AnyUsed(path, used_guids) == TRUE

\* the while loop of find_matching_templates from one start guid:
\* <<matches, used_guids>>
RECURSIVE MatchPaths(_, _, _, _, _, _, _, _)
MatchPaths(path_queue, visited_paths, matches, used_guids, names, w, rank, templates) ==
  IF path_queue = <<>> THEN <<matches, used_guids>>
  ELSE LET path == Head(path_queue)
           cm == DOMAIN names
       IN IF path \in visited_paths
          THEN MatchPaths(Tail(path_queue), visited_paths, matches, used_guids,
                          names, w, rank, templates)
          ELSE IF /\ PathNames(path, names) \in DOMAIN templates
                  /\ NoneUsed(path, used_guids)
          THEN MatchPaths(Tail(path_queue), visited_paths \cup {path},
                          Append(matches, path),
                          used_guids \cup {path[i] : i \in 1..Len(path)},
                          names, w, rank, templates)
          ELSE MatchPaths(Tail(path_queue) \o ExtendPath(path, cm, w, rank),
                          visited_paths \cup {path}, matches, used_guids,
                          names, w, rank, templates)

\* the for loop over source_guids
RECURSIVE MatchFrom(_, _, _, _, _, _, _)
MatchFrom(source_guids, matches, used_guids, names, w, rank, templates) ==
  IF source_guids = <<>> THEN matches
  ELSE IF Head(source_guids) \in used_guids
  THEN MatchFrom(Tail(source_guids), matches, used_guids, names, w, rank, templates)
  ELSE LET r == MatchPaths(<<<<Head(source_guids)>>>>, {}, matches, used_guids,
                           names, w, rank, templates)
       IN MatchFrom(Tail(source_guids), r[1], r[2], names, w, rank, templates)

\* matches.sort(key=sample_count, reverse=True): stable
RECURSIVE SortMatches(_, _, _)
SortMatches(matches, names, templates) ==
  IF matches = <<>> THEN <<>>
  ELSE LET rest == SortMatches(Tail(matches), names, templates)
           count(path) == templates[PathNames(path, names)]
           k == Cardinality({i \in 1..Len(rest) : count(rest[i]) > count(Head(matches))})
       IN SubSeq(rest, 1, k) \o <<Head(matches)>> \o SubSeq(rest, k + 1, Len(rest))

\* find_matching_templates(comp_map, outgoing): the guid lists of the
\* matches
find_matching_templates(names, w, rank, templates) ==
  IF DOMAIN templates = {} THEN <<>>
  ELSE LET cm == DOMAIN names
           source_guids == Ascending({g \in cm : Outgoing(cm, w, g) # {}})
       IN SortMatches(MatchFrom(source_guids, <<>>, {}, names, w, rank, templates),
                      names, templates)

\* the loop of calculate_auto_layout over the matches: the matches it
\* applied, in order; template_applied_guids is the union of their guids
RECURSIVE AppliedMatches(_, _)
AppliedMatches(matches, template_applied_guids) ==
  IF matches = <<>> THEN <<>>
  ELSE LET guids == Head(matches)
       IN IF \E i \in 1..Len(guids) : guids[i] \in template_applied_guids
          THEN AppliedMatches(Tail(matches), template_applied_guids)
          ELSE <<guids>> \o AppliedMatches(Tail(matches),
                                           template_applied_guids
                                             \cup TemplatePositions(guids))

\* the cluster as the placement stage takes it
WholeCluster(c, template_applied_guids) == c

\* remaining_cluster = cluster - template_applied_guids
RemainingCluster(c, template_applied_guids) == c \ template_applied_guids

\* the guids the per-cluster placement stage gives a position
ChainPlaced(cm, w, template_applied_guids) ==
  UNION {ClusterPositions(RemainingCluster(c, template_applied_guids), w) :
           c \in {k \in Clusters(cm, w) :
                    RemainingCluster(k, template_applied_guids) # {}}}

\* calculate_auto_layout from the template stage to new_positions, on the
\* canvas and the templates the state holds
ApplyTemplates ==
  /\ sresult.op = "template_canvas"
  /\ \E rank \in TemplateRanks(DOMAIN sresult.names) :
       LET matches == find_matching_templates(sresult.names, sresult.wires, rank,
                                              sresult.subgraph_templates)
           applied == AppliedMatches(matches, {})
           template_applied_guids ==
             UNION {TemplatePositions(applied[i]) : i \in 1..Len(applied)}
       IN sresult' = [sresult EXCEPT
                        !.op = "templates_applied",
                        !.value =
                          [matches |-> applied,
                           template_positions |-> template_applied_guids,
                           chain_placed |->
                             ChainPlaced(DOMAIN sresult.names, sresult.wires,
                                         template_applied_guids)]]
  /\ UNCHANGED <<store, file, lvars, cvars>>

InitTemplate ==
  /\ LayoutIdle /\ CrossIdle
  /\ store = FreshStore /\ file = NoFile
  /\ \E names \in [1..MaxTemplateNodes -> TemplateNames] :
       \E w \in TemplateWires(MaxTemplateNodes), templates \in TemplateStores :
         sresult = [op |-> "template_canvas", raised |-> "none", names |-> names,
                    wires |-> w, subgraph_templates |-> templates, value |-> <<>>]

NextTemplate == ApplyTemplates

SpecTemplate == InitTemplate /\ [][NextTemplate]_vars

\* ------------------- a cluster without a source in calculate_auto_layout
\* components of such a cluster
MaxCycleNodes == 3

\* original x of a component
OriginalXs == {Px(10), Px(20)}

\* wire sets over 1..n in which every component has exactly one incoming
\* wire: the cluster has no source
SourcelessWires(n) ==
  {ws \in SUBSET {e \in (1..n) \X (1..n) : e[1] # e[2]} :
     /\ \A g \in 1..n : Cardinality(Incoming(1..n, ws, g)) = 1
     /\ Clusters(1..n, ws) = {1..n}}

\* sources of the remaining cluster: its components without an incoming
\* wire or, when there is none, the component(s) of least original x, of
\* which min() returns the first in the iteration order of the set
cluster_sources(remaining_cluster, w, original_x) ==
  LET sources == {g \in remaining_cluster : Incoming(remaining_cluster, w, g) = {}}
  IN IF sources # {} THEN {sources}
     ELSE {{g} : g \in {h \in remaining_cluster :
                          \A k \in remaining_cluster : original_x[h] <= original_x[k]}}

\* calculate_auto_layout up to the sources of a cluster that the level BFS
\* did not reach: the levels of its components are the estimated ones
PseudoSource ==
  /\ sresult.op = "cycle_canvas"
  /\ \E sources \in cluster_sources(DOMAIN sresult.original_x, sresult.wires,
                                    sresult.original_x) :
       sresult' = [sresult EXCEPT !.op = "sources", !.value = sources]
  /\ UNCHANGED <<store, file, lvars, cvars>>

InitCycle ==
  /\ LayoutIdle /\ CrossIdle
  /\ store = FreshStore /\ file = NoFile
  /\ \E n \in 2..MaxCycleNodes :
       \E w \in SourcelessWires(n), original_x \in [1..n -> OriginalXs],
          estimated_level \in [1..n -> 0..MaxEstLevel] :
         sresult = [op |-> "cycle_canvas", raised |-> "none", wires |-> w,
                    original_x |-> original_x, node_levels |-> estimated_level,
                    value |-> {}]

NextCycle == PseudoSource

SpecCycle == InitCycle /\ [][NextCycle]_vars

\* --------------------------------------------- the two overlap resolvers
\* MIN_Y_SPACING of the class, in tenths of a pixel
MIN_Y_SPACING == 600

\* components handed to an overlap resolver
MaxColumnNodes == 3

\* the x and y the resolvers are handed
ColumnXs == {Px(1000), Px(1180)}
ColumnYs == {Px(1000), Px(1010), Px(1020), Px(1110)}

\* sorted(positions.items(), key=(x, y)): stable
RECURSIVE SortByXY(_)
SortByXY(items) ==
  IF items = <<>> THEN <<>>
  ELSE LET rest == SortByXY(Tail(items))
           before(a, b) == a[2] < b[2] \/ (a[2] = b[2] /\ a[3] < b[3])
           k == Cardinality({i \in 1..Len(rest) : before(rest[i], Head(items))})
       IN SubSeq(rest, 1, k) \o <<Head(items)>> \o SubSeq(rest, k + 1, Len(rest))

\* new_positions with the y of component g replaced
WithY(new_positions, g, y) ==
  [i \in 1..Len(new_positions) |->
     IF new_positions[i][1] = g THEN <<g, new_positions[i][2], y>> ELSE new_positions[i]]

\* the inner loop of _ensure_no_overlap for the component node, from entry
\* k of new_positions on: the component is moved below every entry it
\* overlaps and is not above
RECURSIVE PushBelow(_, _, _)
PushBelow(node, new_positions, k) ==
  IF k > Len(new_positions) THEN new_positions
  ELSE LET other == new_positions[k]
           my_top == PlacedY(new_positions, node[1])
           my_bottom == my_top + DefaultHeight
           other_top == other[3]
           other_bottom == other_top + DefaultHeight
           x_overlap == (IF node[2] >= other[2] THEN node[2] - other[2]
                         ELSE other[2] - node[2]) < Px(50)
       IN IF /\ other[1] # node[1] /\ x_overlap
             /\ my_top < other_bottom + MIN_Y_SPACING
             /\ my_bottom + MIN_Y_SPACING > other_top
             /\ my_top >= other_top
          THEN PushBelow(node, WithY(new_positions, node[1], other_bottom + MIN_Y_SPACING),
                         k + 1)
          ELSE PushBelow(node, new_positions, k + 1)

\* the outer loop over sorted_nodes
RECURSIVE EnsureFrom(_, _)
EnsureFrom(sorted_nodes, new_positions) ==
  IF sorted_nodes = <<>> THEN new_positions
  ELSE EnsureFrom(Tail(sorted_nodes), PushBelow(Head(sorted_nodes), new_positions, 1))

\* _ensure_no_overlap(positions, comp_map): guid -> <<x, y>>
ensure_no_overlap(placed) ==
  LET new_positions == EnsureFrom(SortByXY(placed), placed)
  IN [g \in PlacedGuids(placed) |->
        LET i == CHOOSE k \in 1..Len(new_positions) : new_positions[k][1] = g
        IN <<new_positions[i][2], new_positions[i][3]>>]

EnsureNoOverlap ==
  /\ sresult.op = "positions"
  /\ sresult' = [sresult EXCEPT !.op = "_ensure_no_overlap",
                                !.value = ensure_no_overlap(sresult.positions)]
  /\ UNCHANGED <<store, file, lvars, cvars>>

ResolveOverlapsV1 ==
  /\ sresult.op = "positions"
  /\ sresult' = [sresult EXCEPT !.op = "_resolve_overlaps_v1",
                                !.value = resolve_overlaps_v1(sresult.positions)]
  /\ UNCHANGED <<store, file, lvars, cvars>>

InitOverlap ==
  /\ LayoutIdle /\ CrossIdle
  /\ store = FreshStore /\ file = NoFile
  /\ \E at \in [1..MaxColumnNodes -> ColumnXs \X ColumnYs] :
       sresult = [op |-> "positions", raised |-> "none",
                  positions |-> [g \in 1..MaxColumnNodes |-> <<g, at[g][1], at[g][2]>>],
                  value |-> <<>>]

NextOverlap == EnsureNoOverlap \/ ResolveOverlapsV1

SpecOverlap == InitOverlap /\ [][NextOverlap]_vars

\* =============================== claims ================================
\* ------------------------------------------------------------ C1
\* a layout operation has finished its level computation
LevelsComputed ==
  pc = "done" /\ op \in {"auto", "v1", "topo"} /\ result \in {"success", "returned"}

\* the edges between two nodes that have a level
LevelEdges == {e \in wires : e[1] \in DOMAIN node_levels /\ e[2] \in DOMAIN node_levels}

DepthMonotone == \A e \in LevelEdges : node_levels[e[2]] >= node_levels[e[1]] + 1

C2_CallsBounded == steps <= StepBound(Cardinality(comp_map))

\* ------------------------------------------------------------ C3
\* minimize_crossings took the barycenter order as its initial order
BarycenterStart ==
  ~(ml_initial_order # <<>> /\ SeqRange(ml_initial_order) = SeqRange(level_nodes))

BarycenterCrossings ==
  count_crossings_for_order(barycenter_order(level_nodes, all_wires), base_y, all_wires)

\* C3: for any level, node positions and wire set, the order the minimizer
\* holds after the barycenter ordering, through every adjacent swap and at
\* its return, never has more crossings than the barycenter order, and the
\* count it returns is the count of the order it returns.
C3_MinimizerNeverWorse ==
  (cpc \in {"while", "for", "returned"} /\ Len(level_nodes) >= 2 /\ BarycenterStart) =>
    /\ count_crossings_for_order(current_order, base_y, all_wires) <= BarycenterCrossings
    /\ cpc = "returned" =>
         crossings = count_crossings_for_order(current_order, base_y, all_wires)

\* the local search has returned an order with fewer crossings than the
\* barycenter order
C3_Witness ==
  /\ cpc = "returned" /\ Len(level_nodes) >= 2 /\ BarycenterStart
  /\ crossings < BarycenterCrossings

\* ------------------------------------------------------------ C4
\* The exhaustive check: segments AB and CD cross when the intersection of
\* their lines lies strictly inside both, by the parameters t / d and u / d
\* of the intersection point along AB and along CD.
ProperCross(A, B, C, D) ==
  LET d == (B[1] - A[1]) * (D[2] - C[2]) - (B[2] - A[2]) * (D[1] - C[1])
      t == (C[1] - A[1]) * (D[2] - C[2]) - (C[2] - A[2]) * (D[1] - C[1])
      u == (C[1] - A[1]) * (B[2] - A[2]) - (C[2] - A[2]) * (B[1] - A[1])
  IN \/ d > 0 /\ 0 < t /\ t < d /\ 0 < u /\ u < d
     \/ d < 0 /\ d < t /\ t < 0 /\ d < u /\ u < 0

\* two wires cross when they share no component and their segments cross
WiresCross(w1, w2) ==
  /\ {w1.source_guid, w1.target_guid} \cap {w2.source_guid, w2.target_guid} = {}
  /\ ProperCross(source_point(w1), target_point(w1), source_point(w2), target_point(w2))

\* the unordered pairs of places of the list whose wires cross
CrossingPairs(ws) ==
  {pr \in SUBSET (1..Len(ws)) :
     /\ Cardinality(pr) = 2
     /\ \E i, j \in pr : i # j /\ WiresCross(ws[i], ws[j])}

\* C4: for any wire set, the count of count_crossings is the number of
\* unordered pairs of distinct wires that cross by the exhaustive pairwise
\* check, each pair counted once.
C4_CountIsCrossingPairs ==
  cpc = "counted" => crossings = Cardinality(CrossingPairs(all_wires))

\* a wire list with two crossing pairs has been counted
C4_Witness ==
  cpc = "counted" /\ Len(all_wires) = MaxDetWires /\ crossings >= 2

\* ------------------------------------------------------------ C5
\* C5: after any sequence of learning calls, those that feed more samples
\* than a cap included, no sample window of a pattern and no sample pool
\* holds more entries than its cap.
C5_BoundedRetention ==
  /\ \A n \in DOMAIN store.component_patterns :
       Len(store.component_patterns[n].offset_x_samples) <= SampleCap
  /\ Len(store.spacing_pattern.x_samples) <= SpacingCap
  /\ \A t \in DOMAIN store.connection_spacing :
       Len(store.connection_spacing[t].x_samples) <= SampleCap
  /\ Len(store.connection_pair_samples) <= max_knn_samples
  /\ \A k \in DOMAIN store.x_spacing_by_level :
       Len(store.x_spacing_by_level[k].x_spacings) <= SampleCap
  /\ \A k \in DOMAIN store.relative_position_patterns :
       Len(store.relative_position_patterns[k].x_offsets) <= SampleCap

\* a learning call has fed every collection past its cap, and each holds
\* exactly its cap
C5_Witness ==
  /\ sresult.op = "learn"
  /\ sresult.truncated =
       {"component", "spacing", "connection", "pool", "level", "relative"}
  /\ Len(store.component_patterns[src_name].offset_x_samples) = SampleCap
  /\ Len(store.spacing_pattern.x_samples) = SpacingCap
  /\ Len(store.connection_pair_samples) = max_knn_samples
  /\ Len(store.relative_position_patterns[name_key].x_offsets) = SampleCap

\* ------------------------------------------------------------ C6
\* the document has an entry in every pattern family
EveryFamilyHasEntry(doc) ==
  /\ DOMAIN doc.component_patterns # {}
  /\ doc.spacing_pattern.sample_count > 0
  /\ \E t \in DOMAIN doc.connection_spacing : doc.connection_spacing[t].sample_count > 0
  /\ doc.connection_pair_samples # <<>>
  /\ DOMAIN doc.x_spacing_by_level # {}
  /\ DOMAIN doc.relative_position_patterns # {}

\* C6: a saved document with an entry in every pattern family has been
\* loaded into a new store; the document a save of that store writes is the
\* document that was loaded, with every sample count, weight, ratio and
\* average the same.
C6_RoundTrip ==
  (sresult.op = "construct" /\ sresult.loaded /\ EveryFamilyHasEntry(file.doc)) =>
    DocOf(store) = file.doc

\* ------------------------------------------------------------ C7
\* C7: a store constructed on a document whose version field names another
\* schema version: the load does not fail and the store is the fresh store,
\* with nothing of the document applied.
C7_ForeignVersionStartsFresh ==
  (/\ sresult.op = "construct" /\ file.exists /\ file.bad = "none"
   /\ file.doc.version \notin {VERSION, "none"}) =>
    (sresult.success /\ store = FreshStore)

\* ------------------------------------------------------------ C8
\* C8: a store constructed on a file that is unreadable, partly invalid or
\* without a version field is the fresh store: nothing of the file, what was
\* read before the fault included, is in it.
C8_BadFileStartsFresh ==
  (/\ sresult.op = "construct" /\ file.exists
   /\ (file.bad # "none" \/ file.doc.version = "none")) =>
    store = FreshStore

\* ------------------------------------------------------------ C9
\* C9: a layout call on a graph of fewer than two nodes returns the failure
\* result that says there is not enough data; it neither raises nor returns
\* a best-effort layout.
C9_TooFewNodesRefused ==
  (pc = "done" /\ op \in {"auto", "v1", "v9"} /\ Cardinality(comp_map) < 2) =>
    result \in {"not_enough", "no_valid"}

\* ------------------------------------------------------------ C10
\* C10: a layout call on a graph of at least two nodes, cyclic or not, comes
\* to its end and then has a position for every node: its loops stay within
\* their bound and at its return the position map covers the graph.
C10_EveryNodePlaced ==
  (op \in {"auto", "v1", "v9"} /\ Cardinality(comp_map) >= 2) =>
    /\ steps <= StepBound(Cardinality(comp_map))
    /\ pc = "done" => (result = "success" /\ positions = comp_map)

\* ------------------------------------------------------------ C11
\* C11: no operation of the store or of its set-up lets an exception reach
\* its caller; every call ends with a returned result.
C11_NoFaultPropagates == sresult.raised = "none"

\* ------------------------------------------------------------ C12
\* the pattern entries of a saved document, over all families
DocEntries(doc) ==
  {doc.component_patterns[n] : n \in DOMAIN doc.component_patterns}
  \cup {doc.spacing_pattern}
  \cup {doc.connection_spacing[t] : t \in DOMAIN doc.connection_spacing}
  \cup {doc.x_spacing_by_level[k] : k \in DOMAIN doc.x_spacing_by_level}
  \cup {doc.relative_position_patterns[k] :
          k \in DOMAIN doc.relative_position_patterns}

\* C12: every pattern entry of a document the store wrote has a sample
\* count of at least one, so every average in it comes from a sample.
C12_NoZeroSamplePattern ==
  (file.exists /\ file.bad = "none") =>
    \A e \in DocEntries(file.doc) : e.sample_count >= 1

\* ------------------------------------------------------------ C13
\* the last operation was a predict_offset_knn query
Predicted == sresult.op = "predict_offset_knn"

\* positions of the pool whose sample scores above zero for the query
Positive(pool, q) ==
  {i \in 1..Len(pool) :
     Score(pool[i], q.source_name, q.target_name, q.source_type, q.target_type) > 0}

\* no sample of the pool applies to the query of the last operation
NoDataApplies == Positive(store.connection_pair_samples, sresult.query) = {}

\* C13: a query for which the store has no applicable data returns the
\* no-data signal or a value with a confidence above zero, never a number
\* with confidence zero.
C13_NoZeroConfidenceValue ==
  /\ (Predicted /\ NoDataApplies) => sresult.value.confidence # <<0, 1>>
  /\ (sresult.op = "_get_learned_offset"
      /\ MatchingOffsets(store.connection_pair_samples, sresult.query.source_name,
                         sresult.query.target_name) = <<>>)
       => sresult.value.signal = "None"

\* ------------------------------------------------------------ C14
\* how a sample matches a query, in the words of the ranking
MatchKind(sample, q) ==
  IF sample.source_name = q.source_name /\ sample.target_name = q.target_name
  THEN "name pair"
  ELSE IF sample.source_name = q.source_name THEN "source name only"
  ELSE IF sample.target_name = q.target_name THEN "target name only"
  ELSE IF sample.source_type = q.source_type /\ sample.target_type = q.target_type
  THEN "category pair"
  ELSE "other"

MatchRank(kind) ==
  CASE kind = "name pair" -> 4 [] kind = "source name only" -> 3
    [] kind = "target name only" -> 2 [] kind = "category pair" -> 1
    [] kind = "other" -> 0

ScoreOf(sample, q) ==
  Score(sample, q.source_name, q.target_name, q.source_type, q.target_type)

\* sum over the positions T of score and of score * offset
RECURSIVE WeightOver(_, _, _)
WeightOver(T, pool, q) ==
  IF T = {} THEN 0
  ELSE LET i == CHOOSE j \in T : TRUE
       IN ScoreOf(pool[i], q) + WeightOver(T \ {i}, pool, q)

RECURSIVE WeightedOffsetOver(_, _, _)
WeightedOffsetOver(T, pool, q) ==
  IF T = {} THEN 0
  ELSE LET i == CHOOSE j \in T : TRUE
       IN ScoreOf(pool[i], q) * pool[i].offset_x + WeightedOffsetOver(T \ {i}, pool, q)

\* T is a choice of the k highest-scoring positions with a score above zero
TopChoice(T, pool, q, k) ==
  /\ T \subseteq Positive(pool, q)
  /\ Cardinality(T) = MinOf({k, Cardinality(Positive(pool, q))})
  /\ \A i \in T : \A j \in (1..Len(pool)) \ T : ScoreOf(pool[j], q) <= ScoreOf(pool[i], q)

\* C14: the scores follow the ranking name pair > source name only > target
\* name only > category pair > 0, and the predicted offset is the
\* score-weighted mean of k highest-scoring samples with a score above zero;
\* no other sample and no sample of score zero has a part in it.
C14_TopKByRank ==
  Predicted =>
    LET pool == store.connection_pair_samples
        q == sresult.query
    IN /\ \A i \in 1..Len(pool) : \A j \in 1..Len(pool) :
            /\ MatchRank(MatchKind(pool[i], q)) >= 1 => ScoreOf(pool[i], q) > 0
            /\ (MatchRank(MatchKind(pool[j], q)) >= 1
                /\ MatchRank(MatchKind(pool[i], q)) > MatchRank(MatchKind(pool[j], q)))
                 => ScoreOf(pool[i], q) > ScoreOf(pool[j], q)
       /\ ~NoDataApplies =>
            \E T \in SUBSET (1..Len(pool)) :
              /\ TopChoice(T, pool, q, sresult.k)
              /\ sresult.value.offset_x =
                   Rat(WeightedOffsetOver(T, pool, q), WeightOver(T, pool, q))

\* a query with k = 1 on a pool whose second sample scores higher than its
\* first and has another offset
C14_Witness ==
  /\ Predicted /\ sresult.k = 1
  /\ Len(store.connection_pair_samples) = 2
  /\ ScoreOf(store.connection_pair_samples[1], sresult.query) > 0
  /\ ScoreOf(store.connection_pair_samples[2], sresult.query)
       > ScoreOf(store.connection_pair_samples[1], sresult.query)
  /\ store.connection_pair_samples[1].offset_x # store.connection_pair_samples[2].offset_x
  /\ sresult.value.offset_x = <<store.connection_pair_samples[2].offset_x, 1>>

\* ------------------------------------------------------------ C15
\* C15: when no sample of the pool matches the query, the pool being empty
\* included, the predictor returns the global average offset of the store
\* with the one fixed low confidence.
C15_FallbackIsGlobalAverage ==
  (Predicted /\ NoDataApplies) =>
    sresult.value = [offset_x |-> store.spacing_pattern.avg_x, confidence |-> <<1, 10>>]

\* ------------------------------------------------------------ C16
\* the wires of the last classified canvas that join two of its components
CanvasWires ==
  {w \in sresult.wires : w[1] \in DOMAIN sresult.names /\ w[2] \in DOMAIN sresult.names}

LearnedStep == sresult'.op = "learn" /\ sresult'.success

\* the wires of the canvas of the learning call of the step: every one joins
\* two components of the canvas
LearnedWires == store'.learning_sessions[Len(store'.learning_sessions)].wire_count

\* C17: a learning call feeds every wire between two components of its
\* canvas once, whatever their coordinates, to the global spacing pattern,
\* to the spacing pattern of the wire's connection type and to the raw pool:
\* each holds one more sample per wire, up to its cap.
C17_EveryWireLearnedOnce ==
  [][LearnedStep =>
       /\ store'.spacing_pattern.sample_count =
            MinOf({store.spacing_pattern.sample_count + LearnedWires, SpacingCap})
       /\ store'.connection_spacing[conn_type].sample_count =
            MinOf({store.connection_spacing[conn_type].sample_count + LearnedWires,
                   SampleCap})
       /\ Len(store'.connection_pair_samples) =
            MinOf({Len(store.connection_pair_samples) + LearnedWires,
                   max_knn_samples})]_vars

\* ------------------------------------------------------------ C18
\* a layout call has returned its positions
Placed == sresult.op = "calculate_auto_layout_v1"

\* C18: with a fresh store, the layout of the chain A -> B -> C from the
\* anchor (ax, ay) puts A at (ax, ay), B at (ax + 150, ay) and C at
\* (ax + 300, ay).
C18_FreshChainSpacing ==
  (Placed /\ store = FreshStore /\ sresult.canvas = ChainCanvas(3)) =>
    /\ sresult.value[1] = sresult.start
    /\ sresult.value[2] = <<sresult.start[1] + Px(150), sresult.start[2]>>
    /\ sresult.value[3] = <<sresult.start[1] + Px(300), sresult.start[2]>>

\* ------------------------------------------------------------ C19
\* the learner holds the branching pattern of "S" with three targets, its
\* y spacing 80 px, learned from fans centred on the source
CenteredBranchingLearned ==
  /\ <<"S", 3>> \in DOMAIN sresult.branching_patterns
  /\ sresult.branching_patterns[<<"S", 3>>].y_spacing = <<Px(80), 1>>
  /\ sresult.branching_patterns[<<"S", 3>>].y_offsets = <<Px(0 - 80), 0, Px(80)>>

\* C19: with the learned branching pattern of fan-out 3, y spacing 80 and a
\* centred arrangement, the layout of a source with three targets puts the
\* targets at the source's y - 80, y and y + 80.
C19_LearnedFanCentered ==
  (Placed /\ CenteredBranchingLearned /\ sresult.canvas = FanCanvas(3, FALSE)) =>
    LET source_y == sresult.value[1][2]
    IN <<sresult.value[2][2], sresult.value[3][2], sresult.value[4][2]>>
         = <<source_y - Px(80), source_y, source_y + Px(80)>>

\* ------------------------------------------------------------ C20
\* C20: after learning the pair A -> B with dx = 120 and dy = 0 in five
\* samples, the layout of a new pair A -> B from an anchor puts A at the
\* anchor and B within 5 px of the anchor + (120, 0).
C20_LearnedPairOffset ==
  (Placed /\ store = PairStore(5) /\ sresult.canvas = ChainCanvas(2)) =>
    /\ sresult.value[1] = sresult.start
    /\ sresult.value[2][1] - (sresult.start[1] + Px(120)) \in (0 - Px(5))..Px(5)
    /\ sresult.value[2][2] - sresult.start[2] \in (0 - Px(5))..Px(5)

\* ------------------------------------------------------------ C21
\* length of the longest path from a component without sources to g, on a
\* canvas without a directed cycle
RECURSIVE LongestPath(_, _, _)
LongestPath(g, cm, w) ==
  IF Incoming(cm, w, g) = {} THEN 0
  ELSE MaxOf({LongestPath(s, cm, w) : s \in Incoming(cm, w, g)}) + 1

\* a level computation has returned
LevelsReturned ==
  sresult.op \in {"learn_node_levels", "feature_topology_levels", "v1_depth"}

\* C21: the level of every component that a level computation reached is
\* the length of the longest path to it from a component without sources; a
\* component downstream of one whose level was raised has the level the
\* raised value gives.
C21_DepthIsLongestPath ==
  LevelsReturned =>
    \A g \in DOMAIN sresult.value :
      Incoming(sresult.comp_map, sresult.wires, g) # {} =>
        sresult.value[g] = LongestPath(g, sresult.comp_map, sresult.wires)

\* ------------------------------------------------------------ C22
\* the average of a window of two different samples gives the later sample
\* more weight than the earlier one: it lies on the later sample's side of
\* their midpoint
LaterWeighsMore(avg, samples) ==
  (Len(samples) = 2 /\ samples[1] # samples[2]) =>
    IF samples[1] < samples[2]
    THEN RatLess(FlatMean(samples), avg)
    ELSE RatLess(avg, FlatMean(samples))

\* C22: every average the store keeps is a recency-weighted mean, a later
\* sample weighing more than an earlier one; none is the flat mean of its
\* samples.
C22_AveragesRecencyWeighted ==
  /\ LaterWeighsMore(store.spacing_pattern.avg_x, store.spacing_pattern.x_samples)
  /\ \A t \in DOMAIN store.connection_spacing :
       LaterWeighsMore(store.connection_spacing[t].avg_x,
                       store.connection_spacing[t].x_samples)
  /\ \A n \in DOMAIN store.component_patterns :
       LaterWeighsMore(store.component_patterns[n].avg_offset_x,
                       store.component_patterns[n].offset_x_samples)

\* ------------------------------------------------------------ C23
\* the template stage and the placement stage of a layout have run
TemplatesApplied == sresult.op = "templates_applied"

\* C23: the templates are applied before the per-cluster placement and
\* consume their nodes: no node a template placed is placed by the
\* placement stage, no node is in two applied matches, and the two stages
\* together place every node.
C23_TemplatesConsumeNodes ==
  TemplatesApplied =>
    LET v == sresult.value
    IN /\ v.template_positions \cap v.chain_placed = {}
       /\ \A i, j \in 1..Len(v.matches) :
            i # j => TemplatePositions(v.matches[i]) \cap TemplatePositions(v.matches[j]) = {}
       /\ v.template_positions \cup v.chain_placed = DOMAIN sresult.names

\* a template matched two nodes of a three-node cluster whose third node the
\* placement stage placed, and a second candidate match sharing a node with
\* the first was not applied
C23_Witness ==
  /\ TemplatesApplied
  /\ Len(sresult.value.matches) = 1
  /\ Cardinality(sresult.value.template_positions) = 2
  /\ Cardinality(sresult.value.chain_placed) = 1
  /\ Cardinality(Clusters(DOMAIN sresult.names, sresult.wires)) = 1
  /\ \E e \in sresult.wires :
       /\ PathNames(<<e[1], e[2]>>, sresult.names) \in DOMAIN sresult.subgraph_templates
       /\ {e[1], e[2]} \cap sresult.value.template_positions # {}
       /\ {e[1], e[2]} \cap sresult.value.chain_placed # {}

\* ------------------------------------------------------------ C24
\* C24: in the reverse placement a source's y is the y of the input port it
\* feeds, and the average of the ports' y when it feeds several placed ports
\* (every component here has one input port, at the component's y).
C24_SourceYAveragesPorts ==
  Placed =>
    LET cm == DOMAIN sresult.canvas.names
        w == WireSet(sresult.canvas)
    IN \A src \in cm :
         LET targets == Outgoing(cm, w, src)
         IN targets # {} =>
              Cardinality(targets) * sresult.value[src][2]
                = SumOf({<<t, sresult.value[t][2]>> : t \in targets})

\* ------------------------------------------------------------ C25
\* C25: every bounded collection is within its cap in every document a
\* save has written and in the store right after every load, however long
\* the collection is in the document that was loaded.
C25_TruncatedBothSides ==
  /\ (sresult.op \in {"save", "learn"} /\ sresult.success /\ file.exists) =>
       /\ Len(file.doc.connection_pair_samples) <= max_knn_samples
       /\ Len(file.doc.spacing_pattern.x_samples) <= SpacingCap
       /\ \A n \in DOMAIN file.doc.component_patterns :
            Len(file.doc.component_patterns[n].offset_x_samples) <= SampleCap
       /\ \A t \in DOMAIN file.doc.connection_spacing :
            Len(file.doc.connection_spacing[t].x_samples) <= SampleCap
  /\ (sresult.op \in {"construct", "load"} /\ sresult.loaded) =>
       /\ Len(store.connection_pair_samples) <= max_knn_samples
       /\ Len(store.spacing_pattern.x_samples) <= SpacingCap
       /\ \A n \in DOMAIN store.component_patterns :
            Len(store.component_patterns[n].offset_x_samples) <= SampleCap
       /\ \A t \in DOMAIN store.connection_spacing :
            Len(store.connection_spacing[t].x_samples) <= SampleCap

\* ------------------------------------------------------------ C26
\* C26: the component the layout takes as the source of a cluster without a
\* source is one of lowest depth in the cluster.
C26_PseudoSourceLowestDepth ==
  sresult.op = "sources" =>
    \A g \in sresult.value : \A h \in DOMAIN sresult.node_levels :
      sresult.node_levels[g] <= sresult.node_levels[h]

\* ------------------------------------------------------------ C27
\* the gap an overlap resolver keeps
MinGapOf(resolver) == IF resolver = "_resolve_overlaps_v1" THEN MIN_GAP ELSE MIN_Y_SPACING

\* C27: after overlap resolution, of any two different components at the
\* same x the lower one is at least the upper one's height plus the minimum
\* gap below the upper one.
C27_ColumnGapHolds ==
  sresult.op \in {"_ensure_no_overlap", "_resolve_overlaps_v1"} =>
    \A g, h \in DOMAIN sresult.value :
      (g # h /\ sresult.value[g][1] = sresult.value[h][1]
         /\ sresult.value[g][2] <= sresult.value[h][2]) =>
        sresult.value[h][2] >= sresult.value[g][2] + DefaultHeight + MinGapOf(sresult.op)

\* the same for the resolver of calculate_auto_layout_v1 alone
V1ColumnGapHolds ==
  sresult.op = "_resolve_overlaps_v1" => C27_ColumnGapHolds

\* ------------------------------------------------------------ C28
\* C28: the order minimize_crossings returns is a permutation of the
\* level's node list: the same length, and every node of the level in it
\* once (the nodes of a level are distinct), including when the order the
\* caller supplied was accepted as the initial order.
C28_ReturnedOrderIsPermutation ==
  (cpc = "returned" /\ level_nodes # <<>>) =>
    /\ Len(current_order) = Len(level_nodes)
    /\ \A i \in 1..Len(level_nodes) :
         Cardinality({k \in 1..Len(current_order) : current_order[k] = level_nodes[i]}) = 1

\* the same where no initial order was supplied
BarycenterOrderIsPermutation ==
  ml_initial_order = <<>> => C28_ReturnedOrderIsPermutation

\* ------------------------------------------------------------ C29
\* C29: load is idempotent: a load of a store that was just loaded from the
\* file, the file unchanged, leaves the store as the first load left it.
C29_LoadIdempotent ==
  [][(/\ sresult.op \in {"load", "construct"} /\ sresult.loaded
      /\ sresult'.op = "load" /\ sresult'.loaded /\ file' = file)
       => store' = store]_vars

\* ------------------------------------------------------------ C30
\* C30: after clear() the store is the store of a new learner without a
\* storage file, schema version included, and the storage file is gone.
C30_ClearIsFresh ==
  sresult.op = "clear" => (store = FreshStore /\ ~file.exists)

====
